---- MODULE Spec2Model ----
(***************************************************************************)
(* A model of the debate engine of insight_synergy:                        *)
(*   debate_engine/moderator.py  DebateModerator                           *)
(*                                                                         *)
(* Reals (Python floats) are fixed-point integers in thousandths: 1.0 is   *)
(* Scale, a conflict intensity of 7.0 is 7000, a consensus level of 0.8 is *)
(* 800.  Every value the rosters of this model produce is exact in that    *)
(* unit.  A text is a sequence of one-character strings, so that lower()   *)
(* and the substring test `keyword in text` are computed, not assumed.     *)
(***************************************************************************)
EXTENDS Integers, Sequences, FiniteSets, TLC

VARIABLES
    max_rounds,          \* DebateModerator.max_rounds
    conflict_threshold,  \* DebateModerator.conflict_threshold (thousandths)
    debate_log,          \* DebateModerator.debate_log: sequence of DebateArgument
    current_round,       \* DebateModerator.current_round
    phase,               \* DebateModerator.phase
    now,                 \* the wall clock read by time.time()
    debate_context,      \* the context the caller holds (returned by initiate_debate)
    op,                  \* the operation that ran last
    ret,                 \* what it returned
    invocations,         \* the agent invocations of the last facilitate_round
    round_start_log,     \* debate_log as it was when the last facilitate_round began
    pc,                  \* position of the driver loop ("api": no driver)
    builder,             \* the BordaConsensusBuilder: evidence_weight, vote_weight
    debate_arguments,    \* the argument list the caller hands to build_consensus
    claims,              \* the Claim objects of the last build_consensus run
    reports,             \* the reports build_consensus has returned so far
    usage_tracking,      \* ModelRouter.usage_tracking: <<role, model>> -> calls
    available_models,    \* ModelFallbackManager.available_models
    tool_context         \* tool_context.state: the session state of the tools

vars == <<max_rounds, conflict_threshold, debate_log, current_round, phase, now,
          debate_context, op, ret, invocations, round_start_log, pc,
          builder, debate_arguments, claims, reports, usage_tracking,
          available_models, tool_context>>

moderator == <<max_rounds, conflict_threshold, debate_log, current_round, phase>>

\* the objects the moderator works beside: consensus builder, model router,
\* fallback manager, and the session of the tools
collaborators == <<builder, debate_arguments, claims, reports, usage_tracking,
                   available_models, tool_context>>

\* the moderator and its caller, as seen from the collaborators
debate == <<moderator, now, debate_context, invocations, round_start_log, pc>>

----------------------------------------------------------------------------
(* Bounds of the model *)

\* facilitate_round is not called once current_round has reached this cap
MaxRoundCap == 2

\* the clock does not advance beyond this value
MaxClock == 3

\* longest debate log drawn for the context-window specification
MaxLogLen == 7

\* longest argument list handed to build_consensus
MaxArguments == 3

\* build_consensus is called at most this often on one builder
MaxBuilds == 2

\* most voters of the claim _calculate_borda_scores is asked about
MaxVoters == 3

\* route_agent_model is called at most this often on one router
MaxRouted == 1

\* longest list of roles handed to optimize_agent_assignments
MaxRoles == 2

\* longest argument list handed to the debate logger
MaxLogged == 3

----------------------------------------------------------------------------
(* Values *)

\* 1.0 in the fixed-point unit
Scale == 1000

Min(a, b) == IF a <= b THEN a ELSE b

\* Python's None, and a Python dict as a record tagged py = "dict"
None == [py |-> "None"]

\* truth value of `if argument:` -- None and the empty dict are falsy
Truthy(x) == x.py = "dict" /\ DOMAIN x # {"py"}

\* dict.get(key, default)
DictGet(d, key, default) == IF key \in DOMAIN d THEN d[key] ELSE default

----------------------------------------------------------------------------
(* Texts *)

TextGood  == <<"G","o","o","d">>
TextButNo == <<"B","u","t"," ","n","o">>
TextFine  == <<"f","i","n","e">>
TextFair  == <<"f","a","i","r">>

\* str.lower() on one character (the upper-case letters the texts use)
LowerChar(c) ==
    CASE c = "B" -> "b"
      [] c = "G" -> "g"
      [] c = "H" -> "h"
      [] c = "P" -> "p"
      [] c = "T" -> "t"
      [] c = "W" -> "w"
      [] OTHER -> c

\* str.lower()
Lower(text) == [i \in DOMAIN text |-> LowerChar(text[i])]

\* `keyword in text`: substring test
Contains(keyword, text) ==
    \E i \in 0..(Len(text) - Len(keyword)) :
        SubSeq(text, i + 1, i + Len(keyword)) = keyword

conflict_keywords ==
    << <<"d","i","s","a","g","r","e","e">>,
       <<"w","r","o","n","g">>,
       <<"i","n","c","o","r","r","e","c","t">>,
       <<"f","l","a","w","e","d">>,
       <<"h","o","w","e","v","e","r">>,
       <<"b","u","t">>,
       <<"c","o","n","t","r","a","r","y">>,
       <<"o","p","p","o","s","i","t","e">>,
       <<"c","h","a","l","l","e","n","g","e">>,
       <<"d","i","s","p","u","t","e">>,
       <<"r","e","f","u","t","e">> >>

----------------------------------------------------------------------------
(* Inputs *)

Question == "q"

\* the agents dict handed to initiate_debate: the agent names in insertion order
Rosters ==
    { <<>>,
      <<"optimist", "pessimist", "ethical">>,
      <<"pessimist", "optimist">> }

\* an invocation that failed (transport error, timeout)
InvocationError == [py |-> "error"]

\* what an invocation of the named agent can come back with: a failure, no
\* answer, an empty answer, or an answer
AgentOutcomes(agent_name) ==
    CASE agent_name = "optimist" ->
            { InvocationError,
              [py |-> "dict", text |-> TextGood] }
      [] agent_name = "pessimist" ->
            { InvocationError,
              [py |-> "dict", text |-> TextButNo,
               evidence |-> <<"e1", "e2", "e3">>, confidence |-> 900],
              [py |-> "dict", text |-> TextFine, confidence |-> 200] }
      [] OTHER ->
            { InvocationError, None, [py |-> "dict"],
              [py |-> "dict", text |-> TextFair, evidence |-> <<"e4">>] }

\* DebateModerator(max_rounds, conflict_threshold): the constructions considered
Constructions == { <<3, 7000>>, <<2, 7000>>, <<2, 2000>>, <<1, 7000>>, <<0, 7000>> }

\* the DebateMetrics values handed to should_continue_debate
MetricsInputs ==
    [conflict_intensity : {1000, 7000, 10000},
     consensus_level : {0, 300, 600, 800, 900}]

----------------------------------------------------------------------------
(* DebateModerator: the pure parts *)

\* the DebatePhase enum, in the order of its members
DebatePhase ==
    <<"INITIALIZATION", "OPENING_STATEMENTS", "ADVERSARIAL_EXCHANGE",
      "EVIDENCE_REVIEW", "CONSENSUS_BUILDING", "FINAL_SYNTHESIS">>

\* DebateArgument(...) as facilitate_round builds it from an agent's answer
DebateArgument(agent_name, argument, timestamp, round_number) ==
    [agent_name |-> agent_name,
     argument |-> argument.text,
     evidence |-> DictGet(argument, "evidence", <<>>),
     confidence |-> DictGet(argument, "confidence", 500),
     timestamp |-> timestamp,
     round_number |-> round_number]

\* self.debate_log[-6:]
LastSix(log) == SubSeq(log, IF Len(log) > 6 THEN Len(log) - 5 ELSE 1, Len(log))

\* arg.evidence[:2]
FirstTwo(evidence) == SubSeq(evidence, 1, Min(2, Len(evidence)))

\* one "\n{agent_name}: {argument}\n" block of the context, with its
\* "Evidence: ..." line (absent when the evidence is empty)
ContextBlock(arg) ==
    [agent_name |-> arg.agent_name,
     argument |-> arg.argument,
     evidence |-> FirstTwo(arg.evidence)]

RECURSIVE ContextBlocks(_)
ContextBlocks(arguments) ==
    IF arguments = <<>> THEN <<>>
    ELSE <<ContextBlock(Head(arguments))>> \o ContextBlocks(Tail(arguments))

\* the context string: "" is [header |-> FALSE], anything else starts with the
\* line "Recent opponent arguments:" and continues with the blocks
EmptyContext == [header |-> FALSE, blocks |-> <<>>]

\* the context windowed after the agent's own entries are removed
_build_agent_context_filter_first(log, agent_name) ==
    IF log = <<>> THEN EmptyContext
    ELSE LET Opponent(arg) == arg.agent_name # agent_name
             recent_arguments == LastSix(SelectSeq(log, Opponent))
         IN [header |-> TRUE, blocks |-> ContextBlocks(recent_arguments)]

_build_agent_context(log, agent_name) ==
    IF log = <<>> THEN EmptyContext
    ELSE LET Opponent(arg) == arg.agent_name # agent_name
             recent_arguments == SelectSeq(LastSix(log), Opponent)
         IN [header |-> TRUE, blocks |-> ContextBlocks(recent_arguments)]

\* the texts of the model
Texts == {TextGood, TextButNo, TextFine, TextFair}

\* the texts in whose lower-cased form some conflict keyword occurs
KeywordTexts ==
    {text \in Texts :
        \E k \in DOMAIN conflict_keywords : Contains(conflict_keywords[k], Lower(text))}

\* the keyword loop testing only the first argument of the pair
PairDisagreesFirstOnly(arg1, arg2) ==
    arg1.argument \in KeywordTexts

\* the keyword loop of _calculate_conflict_intensity for one pair
PairDisagrees(arg1, arg2) ==
    arg1.argument \in KeywordTexts \/ arg2.argument \in KeywordTexts

_calculate_conflict_intensity(arguments) ==
    IF Len(arguments) < 2 THEN Scale
    ELSE LET comparisons == {p \in (DOMAIN arguments) \X (DOMAIN arguments) : p[1] < p[2]}
             total_comparisons == Cardinality(comparisons)
             disagreement_indicators ==
                 Cardinality({p \in comparisons :
                                 PairDisagrees(arguments[p[1]], arguments[p[2]])})
         IN IF total_comparisons = 0 THEN Scale
            ELSE Min(10 * Scale,
                     Scale + (disagreement_indicators * 9 * Scale) \div total_comparisons)

\* bias_score, evidence_strength and participation_balance come from helpers
\* that the sources do not define; the metrics record keeps the two fields the
\* moderator itself computes
_calculate_debate_metrics(arguments) ==
    LET conflict_intensity == _calculate_conflict_intensity(arguments)
    IN [conflict_intensity |-> conflict_intensity,
        consensus_level |-> Scale - (conflict_intensity \div 10)]

\* should_continue_debate with the round cap tested after the high-conflict rule
should_continue_debate_cap_second(metrics) ==
    IF /\ metrics.conflict_intensity > conflict_threshold
       /\ metrics.consensus_level < 600 THEN TRUE
    ELSE IF current_round >= max_rounds THEN FALSE
    ELSE IF metrics.consensus_level > 800 THEN FALSE
    ELSE current_round < max_rounds

\* should_continue_debate without the strong-consensus rule
should_continue_debate_no_consensus_stop(metrics) ==
    IF current_round >= max_rounds THEN FALSE
    ELSE IF /\ metrics.conflict_intensity > conflict_threshold
            /\ metrics.consensus_level < 600 THEN TRUE
    ELSE current_round < max_rounds

\* should_continue_debate with the round cap tested by > instead of >=
should_continue_debate_cap_strict(metrics) ==
    IF current_round > max_rounds THEN FALSE
    ELSE IF /\ metrics.conflict_intensity > conflict_threshold
            /\ metrics.consensus_level < 600 THEN TRUE
    ELSE IF metrics.consensus_level > 800 THEN FALSE
    ELSE current_round < max_rounds

should_continue_debate_conflict_decides(metrics) ==
    IF current_round >= max_rounds THEN FALSE
    ELSE IF metrics.conflict_intensity > conflict_threshold THEN TRUE
    ELSE IF metrics.consensus_level > 800 THEN FALSE
    ELSE current_round < max_rounds

should_continue_debate(metrics) ==
    IF current_round >= max_rounds THEN FALSE
    ELSE IF /\ metrics.conflict_intensity > conflict_threshold
            /\ metrics.consensus_level < 600 THEN TRUE
    ELSE IF metrics.consensus_level > 800 THEN FALSE
    ELSE current_round < max_rounds

\* _get_agent_argument: invokes the agent; a failed invocation is caught here
\* and the agent counts as not having answered
_get_agent_argument(outcome) ==
    IF outcome = InvocationError THEN None ELSE outcome

----------------------------------------------------------------------------
(* facilitate_round: the loop over the roster *)

\* self.debate_log.insert(0, debate_arg)
LogInsertFirst(log, debate_arg) == <<debate_arg>> \o log

\* self.debate_log.append(debate_arg)
LogAppend(log, debate_arg) == Append(log, debate_arg)

\* the loop body logging an empty argument for an agent that gave none
AgentTurnLoggingSilence(acc, agent_name, outcome, tick) ==
    LET context == _build_agent_context(acc.debate_log, agent_name)
        argument == _get_agent_argument(outcome)
        called == Append(acc.invocations,
                         [agent_name |-> agent_name, context |-> context,
                          outcome |-> outcome])
        timestamp == acc.now + tick
        debate_arg == DebateArgument(agent_name,
                                     IF Truthy(argument) THEN argument
                                     ELSE [py |-> "dict", text |-> <<>>],
                                     timestamp, acc.current_round)
    IN [acc EXCEPT !.round_arguments = Append(@, debate_arg),
                   !.debate_log = LogAppend(@, debate_arg),
                   !.now = timestamp,
                   !.invocations = called]

\* one iteration of the loop body for agent_name, whose invocation comes back
\* with outcome; acc carries debate_log, round_arguments, the clock and the
\* record of the invocations made
AgentTurn(acc, agent_name, outcome, tick) ==
    LET context == _build_agent_context(acc.debate_log, agent_name)
        argument == _get_agent_argument(outcome)
        called == Append(acc.invocations,
                         [agent_name |-> agent_name, context |-> context,
                          outcome |-> outcome])
    IN IF Truthy(argument)
       THEN LET timestamp == acc.now + tick
                debate_arg == DebateArgument(agent_name, argument, timestamp,
                                             acc.current_round)
            IN [acc EXCEPT !.round_arguments = Append(@, debate_arg),
                           !.debate_log = LogAppend(@, debate_arg),
                           !.now = timestamp,
                           !.invocations = called]
       ELSE [acc EXCEPT !.invocations = called]

\* the loop leaving at the first agent that gives no argument
RECURSIVE CollectArgumentsUntilSilent(_, _, _, _, _)
CollectArgumentsUntilSilent(i, agents, outcome, tick, acc) ==
    IF i > Len(agents) THEN acc
    ELSE IF ~Truthy(_get_agent_argument(outcome[agents[i]]))
         THEN AgentTurn(acc, agents[i], outcome[agents[i]], tick)
         ELSE CollectArgumentsUntilSilent(i + 1, agents, outcome, tick,
                  AgentTurn(acc, agents[i], outcome[agents[i]], tick))

RECURSIVE CollectArguments(_, _, _, _, _)
CollectArguments(i, agents, outcome, tick, acc) ==
    IF i > Len(agents) THEN acc
    ELSE CollectArguments(i + 1, agents, outcome, tick,
                          AgentTurn(acc, agents[i], outcome[agents[i]], tick))

Range(seq) == {seq[i] : i \in DOMAIN seq}

----------------------------------------------------------------------------
(* debate_engine/consensus.py  BordaConsensusBuilder                       *)
(*                                                                         *)
(* Scores are fixed-point like every real of this model; a quotient that   *)
(* is not a whole number of thousandths is rounded down to one.            *)

\* sum of a sequence of numbers
RECURSIVE Sum(_)
Sum(values) ==
    IF values = <<>> THEN 0 ELSE values[1] + Sum(SubSeq(values, 2, Len(values)))

Max(a, b) == IF a >= b THEN a ELSE b

\* the characters str.strip() removes
Whitespace == {" ", "\t", "\n"}

\* str.strip()
Strip(text) ==
    LET inked == {i \in DOMAIN text : text[i] \notin Whitespace}
    IN  IF inked = {} THEN <<>>
        ELSE SubSeq(text, CHOOSE i \in inked : \A j \in inked : i <= j,
                          CHOOSE i \in inked : \A j \in inked : i >= j)

\* str.split('. '): the pieces between the occurrences of ". ", found from
\* left to right
RECURSIVE Split(_)
Split(text) ==
    LET seps == {i \in 1..(Len(text) - 1) : text[i] = "." /\ text[i + 1] = " "}
    IN  IF seps = {} THEN <<text>>
        ELSE LET first == CHOOSE i \in seps : \A j \in seps : i <= j
             IN  <<SubSeq(text, 1, first - 1)>>
                     \o Split(SubSeq(text, first + 2, Len(text)))

\* sorted(seq, key=..., reverse=True), keys[i] being the key of seq[i]:
\* descending by key, elements of equal key in their original order
SortedDescending(seq, keys) ==
    LET position(i) ==
            Cardinality({j \in DOMAIN seq : keys[j] > keys[i]})
          + Cardinality({j \in 1..i : keys[j] = keys[i]})
    IN  [p \in DOMAIN seq |-> seq[CHOOSE i \in DOMAIN seq : position(i) = p]]

\* list.index(value), 0-based: the position of the first occurrence
Index(seq, value) ==
    (CHOOSE i \in DOMAIN seq :
        seq[i] = value /\ \A j \in 1..(i - 1) : seq[j] # value) - 1

\* the data points behind a citation
DataPoints(citation) ==
    IF citation = "e2" THEN [i \in 1..12 |-> i]
    ELSE IF citation = "e1" THEN [i \in 1..5 |-> i]
    ELSE <<>>

\* the Evidence dataclass
Evidence(source, data_points, confidence, agent_source) ==
    [source |-> source, data_points |-> data_points,
     confidence |-> confidence, agent_source |-> agent_source]

\* _extract_evidence(arg): one Evidence for each citation of the argument
_extract_evidence(arg) ==
    [i \in DOMAIN arg.evidence |->
        Evidence(arg.evidence[i], DataPoints(arg.evidence[i]),
                 arg.confidence, arg.agent_name)]

\* the Claim dataclass; agent_votes is a dict, kept as the sequence of its
\* items in insertion order
Claim(statement, supporting_evidence, agent_votes) ==
    [statement |-> statement, supporting_evidence |-> supporting_evidence,
     agent_votes |-> agent_votes, final_score |-> 0]

\* _find_similar_claim(claims, claim): the position of the first claim with
\* the same statement, 0 for None
_find_similar_claim(claim_list, claim) ==
    LET same == {i \in DOMAIN claim_list :
                    claim_list[i].statement = claim.statement}
    IN  IF same = {} THEN 0 ELSE CHOOSE i \in same : \A j \in same : i <= j

\* agent_votes[agent_name] = confidence: a new key goes last, a key that is
\* there keeps its place
VoteSet(agent_votes, agent_name, confidence) ==
    IF \E i \in DOMAIN agent_votes : agent_votes[i].agent = agent_name
    THEN [i \in DOMAIN agent_votes |->
            IF agent_votes[i].agent = agent_name
            THEN [agent |-> agent_name, confidence |-> confidence]
            ELSE agent_votes[i]]
    ELSE Append(agent_votes, [agent |-> agent_name, confidence |-> confidence])

\* the filter of short sentences
LongEnough(sentence) == Len(Strip(sentence)) > 20

\* one turn of the loop over the sentences of an argument
SentenceTurn(claim_list, sentence, arg) ==
    IF LongEnough(sentence)
    THEN LET claim == Claim(Strip(sentence), _extract_evidence(arg),
                            <<[agent |-> arg.agent_name,
                               confidence |-> arg.confidence]>>)
             existing_claim == _find_similar_claim(claim_list, claim)
         IN  IF existing_claim # 0
             THEN [claim_list EXCEPT ![existing_claim].agent_votes =
                      VoteSet(@, arg.agent_name, arg.confidence)]
             ELSE Append(claim_list, claim)
    ELSE claim_list

RECURSIVE SentenceTurns(_, _, _, _)
SentenceTurns(i, sentences, arg, claim_list) ==
    IF i > Len(sentences) THEN claim_list
    ELSE SentenceTurns(i + 1, sentences, arg,
                       SentenceTurn(claim_list, sentences[i], arg))

\* _extract_claims(arguments), from argument i on
RECURSIVE ExtractClaimsFrom(_, _, _)
ExtractClaimsFrom(i, arguments, claim_list) ==
    IF i > Len(arguments) THEN claim_list
    ELSE ExtractClaimsFrom(i + 1, arguments,
             SentenceTurns(1, Split(arguments[i].argument), arguments[i],
                           claim_list))

_extract_claims(arguments) == ExtractClaimsFrom(1, arguments, <<>>)

\* the confidences of the voters, in the order of the dict
Votes(claim) == [i \in DOMAIN claim.agent_votes |-> claim.agent_votes[i].confidence]

\* the rank of a confidence among the votes: every voter gets the next rank
\* of its own, tied or not
BordaRankByVoter(votes, k) ==
    LET position(i) ==
            Cardinality({j \in DOMAIN votes : votes[j] > votes[i]})
          + Cardinality({j \in 1..i : votes[j] = votes[i]})
    IN  position(k) - 1

\* the rank of voter k: where its confidence first stands in sorted_votes
BordaRank(votes, k) == Index(SortedDescending(votes, votes), votes[k])

\* the Borda score of one claim
BordaScore(claim) ==
    LET votes == Votes(claim)
        total_voters == Len(votes)
    IN  IF total_voters = 0 THEN 0
        ELSE Sum([k \in DOMAIN votes |->
                    (total_voters - BordaRank(votes, k)) * votes[k]])
                \div total_voters

\* the statements of a list of claims
Statements(claim_list) == {claim_list[i].statement : i \in DOMAIN claim_list}

\* a dict statement -> value, written claim by claim: values[i] is written
\* under the statement of claim i, over what an earlier claim wrote there
ByStatement(claim_list, values) ==
    [statement \in Statements(claim_list) |->
        values[CHOOSE i \in DOMAIN claim_list :
                  /\ claim_list[i].statement = statement
                  /\ \A j \in DOMAIN claim_list :
                        claim_list[j].statement = statement => j <= i]]

\* _calculate_borda_scores(claims)
_calculate_borda_scores(claim_list) ==
    ByStatement(claim_list, [i \in DOMAIN claim_list |-> BordaScore(claim_list[i])])
\* min(1.0, len(data_points) / 10.0)
DataQuality(evidence) == Min(Scale, (Len(evidence.data_points) * Scale) \div 10)

\* _calculate_evidence_score(evidence_list)
_calculate_evidence_score(evidence_list) ==
    IF evidence_list = <<>> THEN 0
    ELSE Sum([i \in DOMAIN evidence_list |->
                (evidence_list[i].confidence * 700
                    + DataQuality(evidence_list[i]) * 300) \div Scale])
            \div Len(evidence_list)

\* the final score of one claim
FinalScore(self, claim, borda_scores) ==
    LET borda_score == IF claim.statement \in DOMAIN borda_scores
                       THEN borda_scores[claim.statement] ELSE 0
        evidence_score == _calculate_evidence_score(claim.supporting_evidence)
    IN  (self.vote_weight * borda_score
            + self.evidence_weight * evidence_score) \div Scale

\* _weight_by_evidence(claims, borda_scores): the scores it returns, and the
\* claims with the final_score it has written into them
_weight_by_evidence(self, claim_list, borda_scores) ==
    LET scored == [i \in DOMAIN claim_list |->
                     [claim_list[i] EXCEPT
                        !.final_score = FinalScore(self, claim_list[i], borda_scores)]]
    IN  [weighted_scores |->
            ByStatement(scored, [i \in DOMAIN scored |-> scored[i].final_score]),
         claims |-> scored]

\* the integer square root
Isqrt(x) == CHOOSE r \in 0..Scale : r * r <= x /\ (r + 1) * (r + 1) > x

\* np.mean(votes) and np.std(votes)
Mean(votes) == Sum(votes) \div Len(votes)
Std(votes) ==
    Isqrt(Sum([i \in DOMAIN votes |->
                 (votes[i] - Mean(votes)) * (votes[i] - Mean(votes))])
            \div Len(votes))

\* the agreement among the voters of one claim
Agreement(claim) ==
    LET votes == Votes(claim)
    IN  IF Len(votes) > 1
        THEN Max(0, IF Mean(votes) > 0
                    THEN Scale - (Std(votes) * Scale) \div Mean(votes)
                    ELSE 0)
        ELSE 0

\* _calculate_agreement_level(claims)
_calculate_agreement_level(claim_list) ==
    IF claim_list = <<>> THEN 0
    ELSE Sum([i \in DOMAIN claim_list |-> Agreement(claim_list[i])])
            \div Len(claim_list)

\* list(claim.agent_votes.keys())
SupportingAgents(claim) ==
    [i \in DOMAIN claim.agent_votes |-> claim.agent_votes[i].agent]

\* seq[:n]
Head_n(seq, n) == SubSeq(seq, 1, Min(n, Len(seq)))

\* the primary band without the cap of three
PrimaryInsightsUncapped(sorted_claims, top_score) ==
    SelectSeq(sorted_claims,
              LAMBDA c : c.final_score * Scale >= top_score * 800)

\* the entries of primary_insights: the claims of at least 0.8 top_score, the
\* first 3 of them
PrimaryInsights(sorted_claims, top_score) ==
    Head_n(SelectSeq(sorted_claims,
                     LAMBDA c : c.final_score * Scale >= top_score * 800), 3)

\* the entries of secondary_insights: the claims from 0.5 top_score up to,
\* not including, 0.8 top_score, the first 5 of them
SecondaryInsights(sorted_claims, top_score) ==
    Head_n(SelectSeq(sorted_claims,
                     LAMBDA c : /\ top_score * 500 <= c.final_score * Scale
                                /\ c.final_score * Scale < top_score * 800), 5)

\* _generate_consensus_report(claims, scores)
_generate_consensus_report(claim_list, scores) ==
    LET sorted_claims ==
            SortedDescending(claim_list,
                [i \in DOMAIN claim_list |-> claim_list[i].final_score])
        top_score == IF sorted_claims # <<>> THEN sorted_claims[1].final_score ELSE 0
        primary_claims == PrimaryInsights(sorted_claims, top_score)
        secondary_claims == SecondaryInsights(sorted_claims, top_score)
    IN  [consensus_strength |-> Min(Scale, top_score \div 10),
         primary_insights |->
            [i \in DOMAIN primary_claims |->
                [claim |-> primary_claims[i].statement,
                 confidence |-> primary_claims[i].final_score,
                 supporting_agents |-> SupportingAgents(primary_claims[i]),
                 evidence_count |-> Len(primary_claims[i].supporting_evidence)]],
         secondary_insights |->
            [i \in DOMAIN secondary_claims |->
                [claim |-> secondary_claims[i].statement,
                 confidence |-> secondary_claims[i].final_score,
                 supporting_agents |-> SupportingAgents(secondary_claims[i])]],
         total_claims_analyzed |-> Len(claim_list),
         agreement_level |-> _calculate_agreement_level(sorted_claims)]

\* build_consensus that keeps for itself a part of the vote weight it used
build_consensus_spends_weight(self, arguments) ==
    LET extracted == _extract_claims(arguments)
        borda_scores == _calculate_borda_scores(extracted)
        weighted == _weight_by_evidence(self, extracted, borda_scores)
    IN  [self |-> [self EXCEPT !.vote_weight = @ \div 2],
         claims |-> weighted.claims,
         borda_scores |-> borda_scores,
         report |-> _generate_consensus_report(weighted.claims,
                                               weighted.weighted_scores)]

\* build_consensus(debate_arguments): the builder after the call, the Claim
\* objects and Borda scores the call made, and the report it returns
build_consensus(self, arguments) ==
    LET extracted == _extract_claims(arguments)
        borda_scores == _calculate_borda_scores(extracted)
        weighted == _weight_by_evidence(self, extracted, borda_scores)
    IN  [self |-> self,
         claims |-> weighted.claims,
         borda_scores |-> borda_scores,
         report |-> _generate_consensus_report(weighted.claims,
                                               weighted.weighted_scores)]

\* BordaConsensusBuilder.__init__(evidence_weight, vote_weight)
BordaConsensusBuilder(evidence_weight, vote_weight) ==
    [evidence_weight |-> evidence_weight, vote_weight |-> vote_weight]

----------------------------------------------------------------------------
(* utils/bias_detection.py  BiasDetector                                   *)

\* BiasPattern(name, description, keywords, severity, category); the
\* description is prose and is left out
BiasPattern(name, keywords, severity, category) ==
    [name |-> name, keywords |-> keywords, severity |-> severity,
     category |-> category]

\* _initialize_bias_patterns()
bias_patterns ==
    << BiasPattern("confirmation_bias",
          << <<"c","o","n","f","i","r","m","s">>,
             <<"v","a","l","i","d","a","t","e","s">>,
             <<"s","u","p","p","o","r","t","s"," ","m","y"," ","v","i",
                 "e","w">>,
             <<"a","s"," ","e","x","p","e","c","t","e","d">>,
             <<"o","b","v","i","o","u","s","l","y">> >>,
          700, "cognitive"),
       BiasPattern("anchoring_bias",
          << <<"i","n","i","t","i","a","l"," ","d","a","t","a"," ","s",
                 "h","o","w","s">>,
             <<"f","i","r","s","t"," ","a","n","a","l","y","s","i","s">>,
             <<"s","t","a","r","t","i","n","g"," ","p","o","i","n","t">>,
             <<"b","a","s","e","l","i","n","e">> >>,
          600, "cognitive"),
       BiasPattern("availability_bias",
          << <<"r","e","c","e","n","t","l","y">>,
             <<"j","u","s","t"," ","h","a","p","p","e","n","e","d">>,
             <<"c","u","r","r","e","n","t"," ","t","r","e","n","d">>,
             <<"l","a","t","e","s","t">> >>,
          500, "cognitive"),
       BiasPattern("demographic_bias",
          << <<"u","r","b","a","n"," ","v","s"," ","r","u","r","a","l">>,
             <<"a","g","e"," ","g","r","o","u","p">>,
             <<"g","e","n","d","e","r">>,
             <<"e","t","h","n","i","c","i","t","y">>,
             <<"l","o","c","a","t","i","o","n">> >>,
          900, "fairness"),
       BiasPattern("sample_bias",
          << <<"s","m","a","l","l"," ","s","a","m","p","l","e">>,
             <<"l","i","m","i","t","e","d"," ","d","a","t","a">>,
             <<"s","u","b","s","e","t">>,
             <<"n","o","t"," ","r","e","p","r","e","s","e","n","t","a",
                 "t","i","v","e">> >>,
          800, "statistical"),
       BiasPattern("temporal_bias",
          << <<"s","e","a","s","o","n","a","l">>,
             <<"t","e","m","p","o","r","a","r","y">>,
             <<"o","n","e","-","t","i","m","e"," ","e","v","e","n","t">>,
             <<"a","n","o","m","a","l","y">> >>,
          600, "temporal") >>

confirmation_phrases ==
    << <<"t","h","i","s"," ","p","r","o","v","e","s">>,
       <<"c","l","e","a","r","l","y"," ","s","h","o","w","s">>,
       <<"c","o","n","f","i","r","m","s"," ","o","u","r"," ","h","y","p",
           "o","t","h","e","s","i","s">>,
       <<"a","s"," ","w","e"," ","s","u","s","p","e","c","t","e","d">>,
       <<"v","a","l","i","d","a","t","e","s"," ","o","u","r"," ","a","p",
           "p","r","o","a","c","h">>,
       <<"s","u","p","p","o","r","t","s"," ","o","u","r"," ","v","i","e",
           "w">> >>

counter_indicators ==
    << <<"h","o","w","e","v","e","r">>,
       <<"b","u","t">>,
       <<"a","l","t","h","o","u","g","h">>,
       <<"d","e","s","p","i","t","e">>,
       <<"a","l","t","e","r","n","a","t","i","v","e","l","y">> >>

\* how many entries of a list of phrases occur in the text
Occurring(phrases, text) ==
    Cardinality({i \in DOMAIN phrases : Contains(phrases[i], text)})

\* _detect_confirmation_bias without the look for counterarguments
_detect_confirmation_bias_phrases_only(text) ==
    Min(150 * Occurring(confirmation_phrases, text), 600)

\* _detect_confirmation_bias(text)
_detect_confirmation_bias(text) ==
    LET score == 150 * Occurring(confirmation_phrases, text)
        bonus == IF Occurring(counter_indicators, text) = 0 THEN 100 ELSE 0
    IN  Min(score + bonus, 600)

\* the characters of \w, \d and \s
WordChars ==
    {"a","b","c","d","e","f","g","h","i","j","k","l","m","n","o","p","q","r",
     "s","t","u","v","w","x","y","z","0","1","2","3","4","5","6","7","8","9",
     "_"}
Digits == {"0","1","2","3","4","5","6","7","8","9"}
RegexSpace == {" ", "\t", "\n", "\r", "\f"}

IsWordAt(text, i) == i \in DOMAIN text /\ LowerChar(text[i]) \in WordChars

\* \b between the characters i - 1 and i
Boundary(text, i) == IsWordAt(text, i - 1) # IsWordAt(text, i)

\* the word stands in the text from position i on, whatever the case
MatchAt(word, text, i) ==
    /\ i + Len(word) - 1 <= Len(text)
    /\ Lower(SubSeq(text, i, i + Len(word) - 1)) = word

AllIn(text, from, to, chars) == \A k \in from..to : text[k] \in chars

\* re.search(r"\b(first|...)\s+(second|...)\b", text, re.IGNORECASE)
SearchTwoWords(firsts, seconds, text) ==
    \E i \in DOMAIN text : \E first \in firsts :
        /\ Boundary(text, i)
        /\ MatchAt(first, text, i)
        /\ \E j \in (i + Len(first) + 1)..Len(text) : \E second \in seconds :
              /\ AllIn(text, i + Len(first), j - 1, RegexSpace)
              /\ MatchAt(second, text, j)
              /\ Boundary(text, j + Len(second))

Sample == <<"s","a","m","p","l","e">>

\* re.search(r"\b\d+\s*samples?\b", text, re.IGNORECASE)
SearchSamples(text) ==
    \E i \in DOMAIN text : \E j \in (i + 1)..Len(text) : \E k \in j..Len(text) :
        /\ Boundary(text, i)
        /\ AllIn(text, i, j - 1, Digits)
        /\ AllIn(text, j, k - 1, RegexSpace)
        /\ MatchAt(Sample, text, k)
        /\ \/ Boundary(text, k + 6)
           \/ k + 6 <= Len(text) /\ LowerChar(text[k + 6]) = "s"
                                 /\ Boundary(text, k + 7)

\* _detect_sample_bias(text)
_detect_sample_bias(text) ==
    LET hits == << SearchSamples(text),
                   SearchTwoWords({<<"l","i","m","i","t","e","d">>}, {<<"d","a","t","a">>}, text),
                   SearchTwoWords({<<"s","m","a","l","l">>}, {<<"d","a","t","a","s","e","t">>}, text),
                   SearchTwoWords({<<"f","e","w">>}, {<<"c","a","s","e","s">>}, text) >>
    IN  Min(200 * Cardinality({i \in DOMAIN hits : hits[i]}), 500)

demographic_terms ==
    { <<"u","r","b","a","n">>,
      <<"r","u","r","a","l">>,
      <<"c","i","t","y">>,
      <<"s","u","b","u","r","b","a","n">>,
      <<"y","o","u","n","g">>,
      <<"o","l","d">>,
      <<"e","l","d","e","r","l","y">>,
      <<"m","i","l","l","e","n","n","i","a","l">>,
      <<"m","a","l","e">>,
      <<"f","e","m","a","l","e">>,
      <<"m","e","n">>,
      <<"w","o","m","e","n">> }

Quantifiers ==
    { <<"a","l","l">>,
      <<"m","o","s","t">>,
      <<"m","a","n","y">> }

Frequencies ==
    { <<"a","l","w","a","y","s">>,
      <<"n","e","v","e","r">>,
      <<"t","y","p","i","c","a","l","l","y">> }

\* _detect_demographic_bias(text)
_detect_demographic_bias(text) ==
    LET hits == << SearchTwoWords(Quantifiers, demographic_terms, text),
                   SearchTwoWords(demographic_terms, Frequencies, text) >>
    IN  Min(300 * Cardinality({i \in DOMAIN hits : hits[i]}), 800)

\* the score one pattern accumulates on a text
PatternScore(pattern, argument_text) ==
    ((pattern.severity * 200) \div Scale) * Occurring(pattern.keywords, argument_text)
    + ( CASE pattern.name = "confirmation_bias" ->
                _detect_confirmation_bias(argument_text)
          [] pattern.name = "sample_bias" -> _detect_sample_bias(argument_text)
          [] pattern.name = "demographic_bias" ->
                _detect_demographic_bias(argument_text)
          [] OTHER -> 0 )

\* the threshold for detection
Detected(pattern_score) == pattern_score > 100

\* _analyze_argument_bias adding each fired pattern's whole score
_analyze_argument_bias_uncapped(argument_text) ==
    LET pattern_score == [i \in DOMAIN bias_patterns |->
                            PatternScore(bias_patterns[i], argument_text)]
        added == [i \in DOMAIN bias_patterns |->
                    IF Detected(pattern_score[i])
                    THEN pattern_score[i]
                    ELSE 0]
        fired == SelectSeq([i \in DOMAIN bias_patterns |-> i],
                           LAMBDA i : Detected(pattern_score[i]))
    IN  [bias_score |-> Min(Sum(added), Scale),
         detected_patterns |-> [k \in DOMAIN fired |-> bias_patterns[fired[k]].name],
         added |-> [i \in DOMAIN bias_patterns |->
                      [name |-> bias_patterns[i].name, score |-> added[i]]]]

\* _analyze_argument_bias(argument_text): the score and the detected
\* patterns it returns, and what each pattern added to the score
_analyze_argument_bias(argument_text) ==
    LET pattern_score == [i \in DOMAIN bias_patterns |->
                            PatternScore(bias_patterns[i], argument_text)]
        added == [i \in DOMAIN bias_patterns |->
                    IF Detected(pattern_score[i])
                    THEN Min(pattern_score[i], bias_patterns[i].severity)
                    ELSE 0]
        fired == SelectSeq([i \in DOMAIN bias_patterns |-> i],
                           LAMBDA i : Detected(pattern_score[i]))
    IN  [bias_score |-> Min(Sum(added), Scale),
         detected_patterns |-> [k \in DOMAIN fired |-> bias_patterns[fired[k]].name],
         added |-> [i \in DOMAIN bias_patterns |->
                      [name |-> bias_patterns[i].name, score |-> added[i]]]]

----------------------------------------------------------------------------
(* utils/model_router.py  ModelRouter                                      *)

\* costs per 1K tokens are whole numbers of 0.0001
CostScale == 10000

\* _initialize_model_costs()
model_costs ==
    [m \in {"gpt-4", "claude-3-opus", "grok-1", "claude-3-sonnet",
            "gpt-3.5-turbo", "claude-3-haiku", "gemini-1.5-pro", "gemini-pro",
            "gemini-flash", "gemini-1.5-flash"} |->
        CASE m = "gpt-4" -> 600
          [] m = "claude-3-opus" -> 750
          [] m = "grok-1" -> 500
          [] m = "claude-3-sonnet" -> 150
          [] m = "gpt-3.5-turbo" -> 20
          [] m = "claude-3-haiku" -> 25
          [] m = "gemini-1.5-pro" -> 70
          [] m = "gemini-pro" -> 5
          [] m = "gemini-flash" -> 2
          [] m = "gemini-1.5-flash" -> 1]

Capabilities(reasoning, ethics, bias_detection, data_analysis, debate_skill) ==
    [reasoning |-> reasoning, ethics |-> ethics,
     bias_detection |-> bias_detection, data_analysis |-> data_analysis,
     debate |-> debate_skill]

\* _initialize_model_capabilities()
model_capabilities ==
    [m \in {"gpt-4", "claude-3-opus", "grok-1", "claude-3-sonnet",
            "gpt-3.5-turbo", "gemini-1.5-pro", "gemini-pro", "gemini-flash"} |->
        CASE m = "gpt-4" -> Capabilities(950, 980, 920, 880, 900)
          [] m = "claude-3-opus" -> Capabilities(930, 850, 880, 850, 950)
          [] m = "grok-1" -> Capabilities(880, 750, 800, 820, 920)
          [] m = "claude-3-sonnet" -> Capabilities(850, 800, 750, 880, 850)
          [] m = "gpt-3.5-turbo" -> Capabilities(750, 700, 650, 700, 750)
          [] m = "gemini-1.5-pro" -> Capabilities(900, 750, 780, 950, 800)
          [] m = "gemini-pro" -> Capabilities(820, 700, 720, 900, 750)
          [] m = "gemini-flash" -> Capabilities(750, 650, 680, 850, 700)]

\* _initialize_fallback_chain()
fallback_chain ==
    [m \in {"gpt-4", "claude-3-opus", "claude-3-sonnet", "grok-1",
            "gemini-1.5-pro", "gemini-pro", "gemini-flash"} |->
        CASE m = "gpt-4" -> <<"claude-3-opus", "claude-3-sonnet", "gemini-1.5-pro">>
          [] m = "claude-3-opus" -> <<"gpt-4", "claude-3-sonnet", "gemini-1.5-pro">>
          [] m = "claude-3-sonnet" -> <<"gemini-1.5-pro", "claude-3-haiku", "gemini-pro">>
          [] m = "grok-1" -> <<"claude-3-sonnet", "gemini-1.5-pro", "gemini-pro">>
          [] m = "gemini-1.5-pro" -> <<"gemini-pro", "claude-3-sonnet", "gemini-flash">>
          [] m = "gemini-pro" -> <<"gemini-flash", "gemini-1.5-flash", "gpt-3.5-turbo">>
          [] m = "gemini-flash" -> <<"gemini-1.5-flash", "gemini-pro", "gpt-3.5-turbo">>]

\* the AgentRole enum
AgentRole ==
    {"data_detective", "optimist_analyst", "pessimist_critic", "ethical_auditor",
     "synthesis_moderator", "orchestrator"}

\* the role-specific model preferences of route_agent_model
role_preferences ==
    [role \in AgentRole |->
        CASE role = "data_detective" ->
                [primary_capability |-> "data_analysis",
                 preferred_models |-> <<"gemini-1.5-pro", "gemini-pro", "claude-3-sonnet">>]
          [] role = "optimist_analyst" ->
                [primary_capability |-> "reasoning",
                 preferred_models |-> <<"claude-3-sonnet", "claude-3-opus", "gemini-1.5-pro">>]
          [] role = "pessimist_critic" ->
                [primary_capability |-> "debate",
                 preferred_models |-> <<"grok-1", "claude-3-opus", "claude-3-sonnet">>]
          [] role = "ethical_auditor" ->
                [primary_capability |-> "ethics",
                 preferred_models |-> <<"gpt-4", "claude-3-opus", "claude-3-sonnet">>]
          [] role = "synthesis_moderator" ->
                [primary_capability |-> "reasoning",
                 preferred_models |-> <<"gemini-1.5-pro", "claude-3-opus", "gpt-4">>]
          [] role = "orchestrator" ->
                [primary_capability |-> "reasoning",
                 preferred_models |-> <<"gemini-1.5-pro", "claude-3-opus", "gemini-pro">>]]

\* a budget_constraint that is a number
Float(value) == [py |-> "float", value |-> value]

\* truth value of `if budget_constraint:` -- None and 0.0 are falsy
BudgetGiven(budget_constraint) ==
    budget_constraint.py = "float" /\ budget_constraint.value # 0

\* min_capability of route_agent_model
MinCapability(complexity_score) == 600 + (complexity_score * 300) \div Scale

\* the selection that takes the role's first preferred model
SelectModelFirstPreferred(agent_role, complexity_score, budget_constraint) ==
    role_preferences[agent_role].preferred_models[1]

\* the model route_agent_model selects before it asks for availability
SelectModel(agent_role, complexity_score, budget_constraint) ==
    LET preferences == role_preferences[agent_role]
        primary_capability == preferences.primary_capability
        min_capability == MinCapability(complexity_score)
        capable == SelectSeq(preferences.preferred_models,
                       LAMBDA model :
                          /\ model \in DOMAIN model_capabilities
                          /\ model_capabilities[model][primary_capability]
                                >= min_capability)
        sorted_models ==
            SortedDescending(capable,
                [i \in DOMAIN capable |->
                    model_capabilities[capable[i]][primary_capability]])
        candidate_models ==
            IF BudgetGiven(budget_constraint)
            THEN SelectSeq(sorted_models,
                     LAMBDA model :
                        (IF model \in DOMAIN model_costs
                         THEN model_costs[model] ELSE 1000)
                            <= budget_constraint.value)
            ELSE sorted_models
    IN  IF candidate_models # <<>> THEN candidate_models[1] ELSE "gemini-flash"

\* the fallback chain of a model: fallback_chain.get(primary_model, ["gemini-flash"])
ChainOf(primary_model) ==
    IF primary_model \in DOMAIN fallback_chain
    THEN fallback_chain[primary_model] ELSE <<"gemini-flash">>

\* the walk that takes the last entry of the chain that is available
_try_model_with_fallback_last_available(primary_model, answers) ==
    LET asked == <<primary_model>> \o ChainOf(primary_model)
        yes == {i \in DOMAIN asked : answers[i]}
    IN  [asked |-> [i \in DOMAIN asked |-> [model |-> asked[i], available |-> answers[i]]],
         model |-> IF yes = {} THEN "gemini-flash"
                   ELSE IF 1 \in yes THEN primary_model
                   ELSE asked[CHOOSE i \in yes : \A j \in yes : j <= i]]

\* _try_model_with_fallback(primary_model); answers[k] is what the k-th call
\* of _is_model_available of this walk returns.  The result is the model and
\* the calls of _is_model_available made, in order
_try_model_with_fallback(primary_model, answers) ==
    LET asked == <<primary_model>> \o ChainOf(primary_model)
        yes == {i \in DOMAIN asked : answers[i]}
        stop == IF yes = {} THEN Len(asked)
                ELSE CHOOSE i \in yes : \A j \in yes : i <= j
    IN  [asked |-> [i \in 1..stop |-> [model |-> asked[i], available |-> answers[i]]],
         model |-> IF yes = {} THEN "gemini-flash" ELSE asked[stop]]

\* _track_usage(agent_role, model)
_track_usage(usage, agent_role, model) ==
    LET of_role == IF agent_role \in DOMAIN usage THEN usage[agent_role] ELSE << >>
        count == IF model \in DOMAIN of_role THEN of_role[model] ELSE 0
    IN  [r \in DOMAIN usage \cup {agent_role} |->
            IF r = agent_role
            THEN [m \in DOMAIN of_role \cup {model} |->
                    IF m = model THEN count + 1 ELSE of_role[m]]
            ELSE usage[r]]

\* the calls usage_tracking has counted, over all roles and models
RECURSIVE TotalCalls(_)
TotalCalls(usage) ==
    IF DOMAIN usage = {} THEN 0
    ELSE LET r == CHOOSE r \in DOMAIN usage : TRUE
             rest == [q \in DOMAIN usage \ {r} |-> usage[q]]
             RECURSIVE CountModels(_)
             CountModels(of_role) ==
                IF DOMAIN of_role = {} THEN 0
                ELSE LET m == CHOOSE m \in DOMAIN of_role : TRUE
                     IN  of_role[m] + CountModels([n \in DOMAIN of_role \ {m} |-> of_role[n]])
         IN  CountModels(usage[r]) + TotalCalls(rest)

\* route_agent_model(agent_role, complexity_score, budget_constraint): the
\* model it returns, the one it selected, and usage_tracking after the call
route_agent_model(usage, agent_role, complexity_score, budget_constraint, answers) ==
    LET selected_model == SelectModel(agent_role, complexity_score, budget_constraint)
        walk == _try_model_with_fallback(selected_model, answers)
    IN  [final_model |-> walk.model,
         selected_model |-> selected_model,
         asked |-> walk.asked,
         usage_tracking |-> _track_usage(usage, agent_role, walk.model)]

\* priority_order of optimize_agent_assignments
priority_order ==
    <<"ethical_auditor", "synthesis_moderator", "data_detective",
      "pessimist_critic", "optimist_analyst", "orchestrator">>

\* ordered_agents: the requested roles in priority order, then the others
OrderedAgents(agent_roles) ==
       SelectSeq(priority_order, LAMBDA role : role \in Range(agent_roles))
    \o SelectSeq(agent_roles, LAMBDA role : role \notin Range(priority_order))

\* self.model_costs.get(selected_model, 0.01)
CostOf(selected_model) ==
    IF selected_model \in DOMAIN model_costs THEN model_costs[selected_model] ELSE 100

\* budget_constraint of one assignment: agent_budget * 2, where agent_budget
\* is remaining_budget / agents_remaining.  Costs are whole units, so the
\* filter cost <= budget_constraint keeps the same models when the budget is
\* rounded down to a unit
AgentBudget(remaining_budget, agents_remaining) ==
    Float((IF agents_remaining > 0
           THEN (remaining_budget * 2) \div agents_remaining
           ELSE 200))

\* the loop of optimize_agent_assignments from the k-th ordered agent on;
\* walks[k] holds the answers of _is_model_available to the k-th routing
RECURSIVE AssignFrom(_, _, _, _, _, _, _)
AssignFrom(ordered_agents, k, assignments, remaining_budget, usage, complexity_score, walks) ==
    IF k > Len(ordered_agents)
    THEN [assignments |-> assignments, remaining_budget |-> remaining_budget,
          usage_tracking |-> usage]
    ELSE LET agent_role == ordered_agents[k]
             agents_remaining ==
                Cardinality({i \in DOMAIN ordered_agents :
                                ordered_agents[i] \notin DOMAIN assignments})
             routed == route_agent_model(usage, agent_role, complexity_score,
                           AgentBudget(remaining_budget, agents_remaining),
                           walks[k])
             selected_model == routed.final_model
         IN  AssignFrom(ordered_agents, k + 1,
                 [r \in DOMAIN assignments \cup {agent_role} |->
                     IF r = agent_role THEN selected_model ELSE assignments[r]],
                 Max(0, remaining_budget - CostOf(selected_model)),
                 routed.usage_tracking, complexity_score, walks)

\* optimize_agent_assignments(agent_roles, complexity_score, budget_limit)
optimize_agent_assignments(usage, agent_roles, complexity_score, budget_limit, walks) ==
    AssignFrom(OrderedAgents(agent_roles), 1, << >>, budget_limit, usage,
               complexity_score, walks)

----------------------------------------------------------------------------
(* utils/model_fallback_system.py  ModelFallbackManager                    *)

\* ModelFallbackManager.fallback_chains
fallback_chains ==
    [agent_type \in {"optimist", "pessimist", "ethical", "synthesis"} |->
        CASE agent_type = "optimist" ->
                <<"claude-3-5-sonnet-20240620", "gemini-1.5-pro", "gpt-4",
                  "gemini-2.0-flash-001">>
          [] agent_type = "pessimist" ->
                <<"grok-1", "claude-3-5-sonnet-20240620", "gpt-4",
                  "gemini-2.0-flash-001">>
          [] agent_type = "ethical" ->
                <<"gpt-4", "claude-3-5-sonnet-20240620", "gemini-1.5-pro",
                  "gemini-2.0-flash-001">>
          [] agent_type = "synthesis" ->
                <<"gemini-1.5-pro", "claude-3-5-sonnet-20240620", "gpt-4",
                  "gemini-2.0-flash-001">>]

\* _check_available_models(): env is the set of the environment variables set
_check_available_models(env) ==
       (IF "GOOGLE_CLOUD_PROJECT" \in env
        THEN <<"gemini-2.0-flash-001", "gemini-1.5-pro", "gemini-1.5-flash",
               "gemini-pro">> ELSE <<>>)
    \o (IF "CLAUDE_API_KEY" \in env
        THEN <<"claude-3-5-sonnet-20240620", "claude-3-opus-20240229",
               "claude-3-haiku-20240307">> ELSE <<>>)
    \o (IF "OPENAI_API_KEY" \in env
        THEN <<"gpt-4", "gpt-4-turbo", "gpt-3.5-turbo">> ELSE <<>>)
    \o (IF "GROK_API_KEY" \in env THEN <<"grok-1">> ELSE <<>>)

\* a model name that is a str, and the truth value of `if preferred_model`
Str(value) == [py |-> "str", value |-> value]
NonEmpty(preferred_model) == preferred_model.py = "str" /\ preferred_model.value # ""

\* get_best_available_model(agent_type, preferred_model)
get_best_available_model(available, agent_type, preferred_model) ==
    IF NonEmpty(preferred_model) /\ preferred_model.value \in Range(available)
    THEN preferred_model.value
    ELSE LET chain == IF agent_type \in DOMAIN fallback_chains
                      THEN fallback_chains[agent_type]
                      ELSE <<"gemini-2.0-flash-001">>
             usable == {i \in DOMAIN chain : chain[i] \in Range(available)}
         IN  IF usable = {} THEN "gemini-2.0-flash-001"
             ELSE chain[CHOOSE i \in usable : \A j \in usable : i <= j]

----------------------------------------------------------------------------
(* utils/debate_logger.py  DebateLogger                                    *)

\* sorted(seq, key=...), keys[i] being the key of seq[i]: ascending by key,
\* elements of equal key in their original order
SortedAscending(seq, keys) ==
    LET position(i) ==
            Cardinality({j \in DOMAIN seq : keys[j] < keys[i]})
          + Cardinality({j \in 1..i : keys[j] = keys[i]})
    IN  [p \in DOMAIN seq |-> seq[CHOOSE i \in DOMAIN seq : position(i) = p]]

\* the "debate_initiated" event of the audit trail
InitiationEvent(context) ==
    [timestamp |-> context.start_time,
     event_type |-> "debate_initiated",
     details |-> [question |-> context.question, agents |-> context.agents]]

\* the "argument_submitted" event of one argument
ArgumentEvent(arg) ==
    [timestamp |-> arg.timestamp,
     event_type |-> "argument_submitted",
     agent |-> arg.agent_name,
     details |-> [round |-> arg.round_number,
                  confidence |-> arg.confidence,
                  argument_length |-> Len(arg.argument),
                  evidence_count |-> Len(arg.evidence)]]

\* the audit trail left in the order the events were appended
_build_audit_trail_unsorted(context, arguments) ==
    <<InitiationEvent(context)>>
        \o [i \in DOMAIN arguments |-> ArgumentEvent(arguments[i])]

\* _build_audit_trail(debate_context, arguments)
_build_audit_trail(context, arguments) ==
    LET audit_events ==
            <<InitiationEvent(context)>>
                \o [i \in DOMAIN arguments |-> ArgumentEvent(arguments[i])]
    IN  SortedAscending(audit_events,
            [i \in DOMAIN audit_events |-> audit_events[i].timestamp])

----------------------------------------------------------------------------
(* tools.py: the tools of the root agent, working on tool_context.state    *)


\* "dict_keys("
TextDictKeys == <<"d","i","c","t","_","k","e","y","s","(">>

\* the prefix of the fallback question of call_db_agent
TextGetBasicDataFor ==
    <<"G","e","t"," ","b","a","s","i","c"," ","d","a","t","a"," ","f","o",
      "r",":"," ">>

\* separator.join(texts)
RECURSIVE Join(_, _)
Join(separator, texts) ==
    IF texts = <<>> THEN <<>>
    ELSE IF Len(texts) = 1 THEN texts[1]
    ELSE texts[1] \o separator \o Join(separator, SubSeq(texts, 2, Len(texts)))

\* str(names) of a list of str: ['a', 'b']
StrOfList(names) ==
    <<"[">> \o Join(<<",", " ">>, [i \in DOMAIN names |-> <<"'">> \o names[i] \o <<"'">>])
        \o <<"]">>

\* ' '.join(text) of a str: its characters with a blank between each two
SpacedOut(text) == Join(<<" ">>, [i \in DOMAIN text |-> <<text[i]>>])

\* question.split('?')[0]
BeforeQuestionMark(question) ==
    LET marks == {i \in DOMAIN question : question[i] = "?"}
    IN  IF marks = {} THEN question
        ELSE SubSeq(question, 1, (CHOOSE i \in marks : \A j \in marks : i <= j) - 1)

\* generate_query_fingerprint(question): the digest of the question in lower
\* case and stripped.  The digest itself is kept as the text digested: two
\* questions get one fingerprint when they agree after lower() and strip()
generate_query_fingerprint(question) == Strip(Lower(question))

\* a query result: a list of rows, every row a dict with the given keys in
\* the given order; rows[i][k] is the value of row i under columns[k]
Dataset(columns, rows) == [py |-> "list", columns |-> columns, rows |-> rows]

\* `not data or not isinstance(data, list)`
NoData(data) == data.py # "list" \/ data.rows = <<>>

\* demographic_indicators of assess_data_scope
scope_indicators ==
    << <<"g","e","n","d","e","r">>,
       <<"a","g","e">>,
       <<"r","e","g","i","o","n">>,
       <<"c","o","u","n","t","r","y">>,
       <<"e","t","h","n","i","c","i","t","y">>,
       <<"i","n","c","o","m","e">> >>

\* demographic_indicators of call_ethical_auditor_agent
auditor_indicators ==
    << <<"g","e","n","d","e","r">>,
       <<"a","g","e">>,
       <<"r","e","g","i","o","n">>,
       <<"c","o","u","n","t","r","y">>,
       <<"e","t","h","n","i","c","i","t","y">>,
       <<"r","a","c","e">>,
       <<"i","n","c","o","m","e">>,
       <<"e","d","u","c","a","t","i","o","n">> >>

\* demographic_indicators of check_for_demographic_columns
demographic_indicators ==
    << <<"g","e","n","d","e","r">>,
       <<"s","e","x">>,
       <<"a","g","e">>,
       <<"a","g","e","_","g","r","o","u","p">>,
       <<"a","g","e","_","r","a","n","g","e">>,
       <<"b","i","r","t","h","_","d","a","t","e">>,
       <<"d","o","b">>,
       <<"r","e","g","i","o","n">>,
       <<"s","t","a","t","e">>,
       <<"c","o","u","n","t","r","y">>,
       <<"l","o","c","a","t","i","o","n">>,
       <<"z","i","p","_","c","o","d","e">>,
       <<"p","o","s","t","a","l","_","c","o","d","e">>,
       <<"c","i","t","y">>,
       <<"r","a","c","e">>,
       <<"e","t","h","n","i","c","i","t","y">>,
       <<"n","a","t","i","o","n","a","l","i","t","y">>,
       <<"c","u","l","t","u","r","e">>,
       <<"l","a","n","g","u","a","g","e">>,
       <<"l","o","c","a","l","e">>,
       <<"i","n","c","o","m","e">>,
       <<"e","d","u","c","a","t","i","o","n">>,
       <<"o","c","c","u","p","a","t","i","o","n">>,
       <<"e","m","p","l","o","y","m","e","n","t">>,
       <<"j","o","b","_","t","i","t","l","e">>,
       <<"t","i","e","r">>,
       <<"s","e","g","m","e","n","t">>,
       <<"c","a","t","e","g","o","r","y">>,
       <<"c","l","a","s","s","i","f","i","c","a","t","i","o","n">> >>

\* the keywords that make a column a date column
date_keywords ==
    << <<"d","a","t","e">>,
       <<"t","i","m","e">>,
       <<"c","r","e","a","t","e","d">> >>

\* `indicator in text` for one of the indicators
AnyIn(indicators, text) ==
    \E i \in DOMAIN indicators : Contains(indicators[i], text)

\* d[key] = value
Put(d, key, value) ==
    [k \in DOMAIN d \cup {key} |-> IF k = key THEN value ELSE d[k]]

\* {}
EmptyDict == [py |-> "dict"]

\* the values of a column that are truthy, row by row
TruthyValues(data, column) ==
    LET k == CHOOSE k \in DOMAIN data.columns : data.columns[k] = column
        filled == SelectSeq(data.rows, LAMBDA row : row[k] # 0)
    IN  [i \in DOMAIN filled |-> filled[i][k]]

\* assess_data_scope(data, question)
assess_data_scope(data, question) ==
    IF NoData(data)
    THEN [py |-> "dict", valid |-> FALSE,
          issues |-> <<[text |-> "No data available"]>>, row_count |-> 0]
    ELSE LET columns == data.columns
             has_demographics ==
                AnyIn(scope_indicators, Lower(StrOfList(columns)))
             date_columns ==
                SelectSeq(columns, LAMBDA col : AnyIn(date_keywords, Lower(col)))
             dates == IF date_columns # <<>>
                      THEN TruthyValues(data, date_columns[1]) ELSE <<>>
             assessment ==
                [py |-> "dict", valid |-> TRUE,
                 issues |-> IF Len(data.rows) < 50
                            THEN <<[text |-> "Small dataset",
                                    rows |-> Len(data.rows)]>>
                            ELSE <<>>,
                 row_count |-> Len(data.rows),
                 columns |-> columns,
                 completeness |-> Scale,
                 has_demographics |-> has_demographics]
         IN  IF dates # <<>>
             THEN Put(assessment, "date_range",
                      [start |-> CHOOSE d \in Range(dates) :
                                    \A e \in Range(dates) : d <= e,
                       end |-> CHOOSE d \in Range(dates) :
                                    \A e \in Range(dates) : d >= e])
             ELSE assessment

\* check_for_demographic_columns(data)
check_for_demographic_columns(data) ==
    IF NoData(data) \/ data.columns = <<>>
    THEN FALSE
    ELSE LET column_names == [i \in DOMAIN data.columns |-> Lower(data.columns[i])]
             column_text == Join(<<" ">>, column_names)
         IN  AnyIn(demographic_indicators, column_text)

\* the demographic check call_ethical_auditor_agent makes on the rows itself:
\* columns_text is ' '.join(str(input_data[0].keys())).lower()
AuditorFindsDemographics(input_data) ==
    /\ ~NoData(input_data)
    /\ LET columns_text ==
              Lower(SpacedOut(TextDictKeys \o StrOfList(input_data.columns)
                                  \o <<")">>))
       IN  AnyIn(auditor_indicators, columns_text)

\* the notice stored when the fairness audit does not apply
NotApplicableNotice ==
    [py |-> "str",
     value |-> "Fairness audit was not applicable as the dataset lacked demographic attributes required for bias detection analysis."]

\* the session state setup_before_agent_call leaves before the first tool runs
NewSession == [key \in {"all_db_settings"} |-> [use_database |-> "BigQuery"]]

\* a tool call under way: whether it has raised, the session state, the
\* value returned, and the agents invoked so far
Started(state) == [raised |-> FALSE, state |-> state, ret |-> None, invoked |-> <<>>]

\* AgentTool(agent).run_async(request) of one of the perspective agents: the
\* invocation raises, or returns the agent's text
RunAgent(run, agent, request, outcome) ==
    LET invoked == Append(run.invoked, [agent |-> agent, request |-> request])
    IN  IF outcome.py = "error"
        THEN [run EXCEPT !.raised = TRUE, !.invoked = invoked]
        ELSE [run EXCEPT !.ret = [py |-> "str", by |-> agent],
                         !.invoked = invoked]

\* AgentTool(db_agent).run_async(request): the invocation raises, or the
\* database agent answers; when it has run a query it has stored the rows
\* under 'query_result'
RunDbAgent(run, request, outcome) ==
    LET invoked == Append(run.invoked, [agent |-> "db_agent", request |-> request])
    IN  IF outcome.py = "error"
        THEN [run EXCEPT !.raised = TRUE, !.invoked = invoked]
        ELSE [run EXCEPT
                !.ret = [py |-> "str", by |-> "db_agent", request |-> request],
                !.state = IF outcome.py = "None" THEN @
                          ELSE Put(@, "query_result", outcome),
                !.invoked = invoked]

\* the requests call_db_agent makes for a question
EnhancedQuestion(question) ==
    [template |-> "CONTEXT FOR SQL GENERATION", question |-> question]
FallbackQuestion(question) ==
    [template |-> "fallback", question |-> question,
     text |-> TextGetBasicDataFor \o BeforeQuestionMark(question)]

\* call_db_agent(question, tool_context); primary and fallback are what the
\* two invocations of the database agent come to, clock what now() reads
call_db_agent(state, question, primary, fallback, clock) ==
    LET query_fingerprint == generate_query_fingerprint(question)
        same_fingerprint ==
            /\ "last_query_fingerprint" \in DOMAIN state
            /\ state["last_query_fingerprint"] = query_fingerprint
    IN  IF /\ same_fingerprint
           /\ "query_result" \in DOMAIN state
           /\ "db_agent_output" \in DOMAIN state
        THEN [Started(state) EXCEPT !.ret = state["db_agent_output"]]
        ELSE
        LET first == RunDbAgent(Started(state), EnhancedQuestion(question), primary)
        IN  IF ~first.raised
            THEN LET assessed ==
                        IF "query_result" \in DOMAIN first.state
                        THEN Put(Put(Put(first.state,
                                 "data_assessment",
                                 assess_data_scope(first.state["query_result"], question)),
                                 "last_query_fingerprint", query_fingerprint),
                                 "data_fetch_timestamp", clock)
                        ELSE first.state
                 IN  [first EXCEPT !.state = Put(assessed, "db_agent_output", first.ret)]
            ELSE
            LET second == RunDbAgent([first EXCEPT !.raised = FALSE],
                                     FallbackQuestion(question), fallback)
            IN  IF ~second.raised
                THEN [second EXCEPT !.state = Put(@, "db_agent_output", second.ret)]
                ELSE LET error_msg == [py |-> "str", by |-> "call_db_agent",
                                       value |-> "Database queries failed."]
                     IN  [second EXCEPT !.raised = FALSE,
                                        !.ret = error_msg,
                                        !.state = Put(@, "db_agent_output", error_msg)]

\* call_optimist_agent(analysis_context, tool_context)
call_optimist_agent(run, analysis_context, outcome) ==
    LET done == RunAgent(run, "optimist_analyst_agent", analysis_context, outcome)
    IN  IF done.raised THEN done
        ELSE [done EXCEPT !.state = Put(@, "optimist_agent_output", done.ret)]

\* call_pessimist_agent(analysis_context, tool_context)
call_pessimist_agent(run, analysis_context, outcome) ==
    LET done == RunAgent(run, "pessimist_critic_agent", analysis_context, outcome)
    IN  IF done.raised THEN done
        ELSE [done EXCEPT !.state = Put(@, "pessimist_agent_output", done.ret)]

\* call_ethical_auditor_agent(analysis_context, tool_context)
call_ethical_auditor_agent(run, analysis_context, outcome) ==
    LET input_data == DictGet(run.state, "query_result", [py |-> "str", value |-> ""])
        data_assessment == DictGet(run.state, "data_assessment", EmptyDict)
        assessed == DictGet(data_assessment, "has_demographics", FALSE)
        has_demographics ==
            IF ~assessed THEN AuditorFindsDemographics(input_data) ELSE assessed
    IN  IF ~has_demographics
        THEN [run EXCEPT !.ret = NotApplicableNotice,
                         !.state = Put(@, "ethical_agent_output", NotApplicableNotice)]
        ELSE LET done == RunAgent(run, "ethical_auditor_agent", analysis_context,
                                  outcome)
             IN  IF done.raised THEN done
                 ELSE [done EXCEPT !.state = Put(@, "ethical_agent_output", done.ret)]

\* call_synthesis_moderator_agent(analysis_context, tool_context)
call_synthesis_moderator_agent(run, analysis_context, outcome) ==
    LET done == RunAgent(run, "synthesis_moderator_agent", analysis_context, outcome)
    IN  IF done.raised THEN done
        ELSE [done EXCEPT !.state = Put(@, "synthesis_agent_output", done.ret)]

\* initiate_council_debate(question, tool_context); outcome[agent] is what
\* the invocation of the agent comes to, clock what now() reads
initiate_council_debate(state, question, outcome, clock) ==
    IF "query_result" \notin DOMAIN state
    THEN [Started(state) EXCEPT
            !.ret = [py |-> "str", by |-> "initiate_council_debate",
                     value |-> "Error: No data available for debate analysis. Please run database query first."]]
    ELSE
    LET input_data == state["query_result"]
        data_assessment == DictGet(state, "data_assessment", EmptyDict)
        has_demographics ==
            DictGet(data_assessment, "has_demographics",
                    check_for_demographic_columns(input_data))
        optimist == call_optimist_agent(Started(state), question,
                                        outcome["optimist_analyst_agent"])
        pessimist == IF optimist.raised THEN optimist
                     ELSE call_pessimist_agent(optimist, question,
                                               outcome["pessimist_critic_agent"])
        ethical ==
            IF pessimist.raised THEN pessimist
            ELSE IF has_demographics
                 THEN call_ethical_auditor_agent(pessimist, question,
                                                 outcome["ethical_auditor_agent"])
                 ELSE [pessimist EXCEPT
                         !.state = Put(@, "ethical_agent_output", NotApplicableNotice)]
        synthesis == IF ethical.raised THEN ethical
                     ELSE call_synthesis_moderator_agent(ethical, question,
                              outcome["synthesis_moderator_agent"])
    IN  IF synthesis.raised
        THEN [synthesis EXCEPT
                !.raised = FALSE,
                !.ret = [py |-> "str", by |-> "initiate_council_debate",
                         value |-> "Error during council debate"],
                !.state = Put(@, "debate_error", [py |-> "str", value |-> "error"])]
        ELSE LET debate_metadata ==
                    [timestamp |-> clock,
                     participants |->
                        <<"optimist", "pessimist",
                          IF has_demographics THEN "ethical_auditor"
                          ELSE "ethical_auditor_skipped">>,
                     data_quality_score |->
                        DictGet(DictGet(synthesis.state, "ds_analysis_metadata",
                                        EmptyDict),
                                "data_quality_score", "unknown"),
                     demographic_analysis_performed |-> has_demographics,
                     data_scope |-> DictGet(data_assessment, "row_count", "unknown")]
             IN  [synthesis EXCEPT
                    !.state = Put(@, "debate_metadata", debate_metadata)]

----------------------------------------------------------------------------
(* The collaborators after construction *)

\* BordaConsensusBuilder(), ModelRouter() and a ModelFallbackManager() in an
\* environment with no API key set, none of them called yet, and a session
\* in which no tool has run
CollaboratorsIdle ==
    /\ builder = BordaConsensusBuilder(400, 600)
    /\ debate_arguments = <<>>
    /\ claims = <<>>
    /\ reports = <<>>
    /\ usage_tracking = << >>
    /\ available_models = _check_available_models({})
    /\ tool_context = NewSession

----------------------------------------------------------------------------
(* Operations *)

\* DebateModerator.__init__(max_rounds, conflict_threshold)
Construct(rounds, threshold) ==
    /\ max_rounds = rounds
    /\ conflict_threshold = threshold
    /\ debate_log = <<>>
    /\ current_round = 0
    /\ phase = "INITIALIZATION"

\* the caller before its first call
NoCallYet ==
    /\ now = 0
    /\ debate_context = None
    /\ op = "__init__"
    /\ ret = None
    /\ invocations = <<>>
    /\ round_start_log = <<>>

\* an initiate_debate that leaves the debate log as it finds it
initiate_debate_keeps_log(agents, tick) ==
    /\ now + tick <= MaxClock
    /\ current_round' = 0
    /\ phase' = "INITIALIZATION"
    /\ now' = now + tick
    /\ ret' = [py |-> "dict",
               question |-> Question,
               agents |-> agents,
               start_time |-> now + tick,
               debate_id |-> now + tick]
    /\ debate_context' = ret'
    /\ op' = "initiate_debate"
    /\ invocations' = <<>>
    /\ round_start_log' = <<>>
    /\ UNCHANGED <<max_rounds, conflict_threshold, debate_log>>

\* initiate_debate(question, agents); the clock may have advanced by tick
\* since it was last read
initiate_debate(agents, tick) ==
    /\ now + tick <= MaxClock
    /\ debate_log' = <<>>
    /\ current_round' = 0
    /\ phase' = "INITIALIZATION"
    /\ now' = now + tick
    /\ ret' = [py |-> "dict",
               question |-> Question,
               agents |-> agents,
               start_time |-> now + tick,
               debate_id |-> now + tick]
    /\ debate_context' = ret'
    /\ op' = "initiate_debate"
    /\ invocations' = <<>>
    /\ round_start_log' = <<>>
    /\ UNCHANGED <<max_rounds, conflict_threshold>>

\* a facilitate_round that moves the phase on to the evidence review
facilitate_round_to_evidence_review(outcome, tick) ==
    /\ current_round < MaxRoundCap
    /\ now + tick * Len(debate_context.agents) <= MaxClock
    /\ \E done \in {CollectArguments(1, debate_context.agents, outcome, tick,
                         [debate_log |-> debate_log,
                          round_arguments |-> <<>>,
                          current_round |-> current_round + 1,
                          now |-> now,
                          invocations |-> <<>>])} :
          /\ current_round' = current_round + 1
          /\ debate_log' = done.debate_log
          /\ now' = done.now
          /\ invocations' = done.invocations
          /\ ret' = [round_arguments |-> done.round_arguments,
                     metrics |-> _calculate_debate_metrics(done.round_arguments)]
    /\ round_start_log' = debate_log
    /\ op' = "facilitate_round"
    /\ phase' = "EVIDENCE_REVIEW"
    /\ UNCHANGED <<max_rounds, conflict_threshold, debate_context>>

\* facilitate_round(debate_context); outcome gives what each agent's invocation
\* comes back with, tick how far the clock advances before each time.time()
facilitate_round(outcome, tick) ==
    /\ current_round < MaxRoundCap
    /\ now + tick * Len(debate_context.agents) <= MaxClock
    /\ \E done \in {CollectArguments(1, debate_context.agents, outcome, tick,
                         [debate_log |-> debate_log,
                          round_arguments |-> <<>>,
                          current_round |-> current_round + 1,
                          now |-> now,
                          invocations |-> <<>>])} :
          /\ current_round' = current_round + 1
          /\ debate_log' = done.debate_log
          /\ now' = done.now
          /\ invocations' = done.invocations
          /\ ret' = [round_arguments |-> done.round_arguments,
                     metrics |-> _calculate_debate_metrics(done.round_arguments)]
    /\ round_start_log' = debate_log
    /\ op' = "facilitate_round"
    /\ UNCHANGED <<max_rounds, conflict_threshold, phase, debate_context>>

\* should_continue_debate(metrics)
ShouldContinue(metrics) ==
    /\ op' = "should_continue_debate"
    /\ ret' = [metrics |-> metrics, value |-> should_continue_debate(metrics)]
    /\ invocations' = <<>>
    /\ round_start_log' = <<>>
    /\ UNCHANGED <<moderator, now, debate_context>>

\* one outcome per agent of the roster
OutcomesFor[agents \in Rosters] ==
    {outcome \in [Range(agents) -> UNION {AgentOutcomes(a) : a \in Range(agents)}] :
        \A a \in Range(agents) : outcome[a] \in AgentOutcomes(a)}

OutcomeChoices(agents) == OutcomesFor[agents]

\* a call of facilitate_round with the context the caller holds
FacilitateRoundTicking(ticks) ==
    /\ debate_context # None
    /\ \E tick \in ticks :
       \E outcome \in OutcomeChoices(debate_context.agents) :
          facilitate_round(outcome, tick)

----------------------------------------------------------------------------
(* Spec: a moderator constructed with the default arguments, and a caller  *)
(* that starts debates and runs rounds in any order                        *)

Init ==
    /\ Construct(3, 7000)
    /\ NoCallYet
    /\ pc = "api"
    /\ CollaboratorsIdle

InitiateDebate ==
    /\ \E agents \in Rosters, tick \in 0..1 : initiate_debate(agents, tick)
    /\ UNCHANGED <<pc, collaborators>>

FacilitateRound ==
    /\ FacilitateRoundTicking(0..1)
    /\ UNCHANGED <<pc, collaborators>>

Next ==
    \/ InitiateDebate
    \/ FacilitateRound

Spec == Init /\ [][Next]_vars

----------------------------------------------------------------------------
(* DecideSpec: moderators of every construction; the caller also asks      *)
(* should_continue_debate about any metrics value                          *)

DecideRosters == { <<>>, <<"pessimist", "optimist">> }

DecideInit ==
    /\ \E c \in Constructions : Construct(c[1], c[2])
    /\ NoCallYet
    /\ pc = "api"
    /\ CollaboratorsIdle

DecideInitiate ==
    /\ \E agents \in DecideRosters : initiate_debate(agents, 0)
    /\ UNCHANGED <<pc, collaborators>>

DecideRound ==
    /\ FacilitateRoundTicking({0})
    /\ UNCHANGED <<pc, collaborators>>

DecideAsk ==
    /\ \E metrics \in MetricsInputs : ShouldContinue(metrics)
    /\ UNCHANGED <<pc, collaborators>>

DecideNext ==
    \/ DecideInitiate
    \/ DecideRound
    \/ DecideAsk

DecideSpec == DecideInit /\ [][DecideNext]_vars

----------------------------------------------------------------------------
(* DriverSpec: a driver that calls initiate_debate, then facilitate_round, *)
(* and goes on to the next round only while should_continue_debate, asked  *)
(* about the round's metrics, returns true                                 *)

DriverInit ==
    /\ \E c \in Constructions : c[1] <= MaxRoundCap /\ Construct(c[1], c[2])
    /\ NoCallYet
    /\ pc = "start"
    /\ CollaboratorsIdle

DriverInitiate ==
    /\ pc = "start"
    /\ \E agents \in Rosters : initiate_debate(agents, 0)
    /\ pc' = "round"
    /\ UNCHANGED collaborators

DriverRound ==
    /\ pc = "round"
    /\ FacilitateRoundTicking({0})
    /\ pc' = "decide"
    /\ UNCHANGED collaborators

DriverDecide ==
    /\ pc = "decide"
    /\ ShouldContinue(ret.metrics)
    /\ pc' = IF ret'.value THEN "round" ELSE "done"
    /\ UNCHANGED collaborators

DriverNext ==
    \/ DriverInitiate
    \/ DriverRound
    \/ DriverDecide

\* the driver is sequential code: it takes its next step whenever it has one
DriverSpec == DriverInit /\ [][DriverNext]_vars /\ WF_vars(DriverNext)

----------------------------------------------------------------------------
(* ContextSpec: _build_agent_context applied to debate logs of every       *)
(* content up to MaxLogLen entries -- the log of a debate in which one     *)
(* agent answered in each round                                            *)

ContextAgents == {"optimist", "pessimist", "ethical"}

\* the answers the log entries are built from
LogAnswers ==
    { <<"optimist", [py |-> "dict", text |-> TextGood]>>,
      <<"pessimist", [py |-> "dict", text |-> TextButNo,
                      evidence |-> <<"e1", "e2", "e3">>, confidence |-> 900]>>,
      <<"pessimist", [py |-> "dict", text |-> TextFine, confidence |-> 200]>> }

\* the log after rounds 1..Len(answers), round k answered by answers[k] alone
LogOf(answers) ==
    [k \in DOMAIN answers |->
        DebateArgument(answers[k][1], answers[k][2], 0, k)]

ContextInit ==
    /\ max_rounds = 3
    /\ conflict_threshold = 7000
    /\ phase = "INITIALIZATION"
    /\ \E n \in 0..MaxLogLen :
       \E answers \in [1..n -> LogAnswers] :
          /\ debate_log = LogOf(answers)
          /\ current_round = n
    /\ now = 0
    /\ debate_context = [py |-> "dict", question |-> Question,
                         agents |-> <<"optimist", "pessimist", "ethical">>,
                         start_time |-> 0, debate_id |-> 0]
    \* the calls that produced the log are not recorded
    /\ op = "__init__"
    /\ ret = None
    /\ invocations = <<>>
    /\ round_start_log = <<>>
    /\ pc = "api"
    /\ CollaboratorsIdle

BuildAgentContext ==
    /\ \E agent_name \in ContextAgents :
          ret' = [agent_name |-> agent_name,
                  context |-> _build_agent_context(debate_log, agent_name)]
    /\ op' = "_build_agent_context"
    /\ UNCHANGED <<moderator, now, debate_context, invocations, round_start_log, pc>>
    /\ UNCHANGED collaborators

ContextNext == BuildAgentContext

ContextSpec == ContextInit /\ [][ContextNext]_vars

----------------------------------------------------------------------------
(* ConsensusSpec: a BordaConsensusBuilder and a caller that holds a list   *)
(* of up to MaxArguments arguments and hands it to build_consensus up to   *)
(* MaxBuilds times                                                         *)

\* n times the character c
Run(c, n) == [i \in 1..n |-> c]

\* sentences written one after the other with ". " between them
RECURSIVE Sentences(_)
Sentences(parts) ==
    IF Len(parts) = 1 THEN parts[1]
    ELSE parts[1] \o <<".", " ">> \o Sentences(Tail(parts))

\* the arguments the lists are drawn from
ConsensusArguments ==
    { DebateArgument("optimist",
          [py |-> "dict", text |-> Run("a", 21), confidence |-> 900], 0, 1),
      DebateArgument("pessimist",
          [py |-> "dict", text |-> Run("a", 21), confidence |-> 900], 0, 1),
      DebateArgument("ethical",
          [py |-> "dict", text |-> Run("a", 21)], 0, 1),
      DebateArgument("pessimist",
          [py |-> "dict", text |-> Run("a", 21), confidence |-> 200], 0, 2),
      DebateArgument("pessimist",
          [py |-> "dict",
           text |-> Sentences(<<Run("b", 21), Run("c", 21), Run("d", 21),
                                Run("e", 21), Run("f", 21), Run("g", 21)>>),
           evidence |-> <<"e1">>], 0, 1),
      DebateArgument("ethical",
          [py |-> "dict",
           text |-> Sentences(<<Run("h", 21), Run("i", 21), Run("j", 21),
                                Run("k", 21)>>),
           evidence |-> <<"e2">>, confidence |-> 900], 0, 1),
      DebateArgument("pessimist",
          [py |-> "dict",
           text |-> Sentences(<<Run("v", 21), Run("w", 21), Run("x", 21)>>),
           confidence |-> 900], 0, 1),
      DebateArgument("optimist",
          [py |-> "dict",
           text |-> Sentences(<<<<" ">> \o Run("u", 21) \o <<" ">>,
                                Run("s", 20),
                                Run("t", 19) \o <<".">>>>),
           confidence |-> 800], 0, 1) }

\* the (evidence_weight, vote_weight) the builders are constructed with
BuilderWeights == { <<400, 600>>, <<0, 1000>> }

\* the confidences of the voters of a claim scored on its own
VoterConfidences == {0, 200, 500, 900, 1000}

ConsensusInit ==
    /\ Construct(3, 7000)
    /\ NoCallYet
    /\ pc = "api"
    /\ \E w \in BuilderWeights : builder = BordaConsensusBuilder(w[1], w[2])
    /\ \E n \in 0..MaxArguments :
          debate_arguments \in [1..n -> ConsensusArguments]
    /\ claims = <<>>
    /\ reports = <<>>
    /\ usage_tracking = << >>
    /\ available_models = _check_available_models({})
    /\ tool_context = NewSession

\* build_consensus(debate_arguments)
BuildConsensus ==
    /\ Len(reports) < MaxBuilds
    /\ \E done \in {build_consensus(builder, debate_arguments)} :
          /\ builder' = done.self
          /\ claims' = done.claims
          /\ reports' = Append(reports, done.report)
          /\ ret' = done.report
    /\ op' = "build_consensus"
    /\ UNCHANGED <<debate, debate_arguments, usage_tracking, available_models,
                   tool_context>>

ConsensusNext == BuildConsensus

ConsensusSpec == ConsensusInit /\ [][ConsensusNext]_vars

----------------------------------------------------------------------------
(* BordaSpec: _calculate_borda_scores asked about one claim of up to       *)
(* MaxVoters voters, whatever their confidences                            *)

BordaInit ==
    /\ Construct(3, 7000)
    /\ NoCallYet
    /\ pc = "api"
    /\ CollaboratorsIdle

\* _calculate_borda_scores([claim])
CalculateBordaScores ==
    /\ \E n \in 0..MaxVoters : \E confidences \in [1..n -> VoterConfidences] :
          LET claim == Claim(Run("a", 21), <<>>,
                             [i \in 1..n |-> [agent |-> i,
                                              confidence |-> confidences[i]]])
          IN  ret' = [claims |-> <<claim>>,
                      borda_scores |-> _calculate_borda_scores(<<claim>>)]
    /\ op' = "_calculate_borda_scores"
    /\ UNCHANGED <<debate, collaborators>>

BordaNext == CalculateBordaScores

BordaSpec == BordaInit /\ [][BordaNext]_vars

----------------------------------------------------------------------------
(* BiasSpec: a BiasDetector that scores argument texts as analyze_debate   *)
(* does, the text lowered first.  The texts are one phrase, two phrases    *)
(* with a blank between them, or a longer text loaded with keywords        *)

Phrases ==
    { <<"t","h","i","s"," ","p","r","o","v","e","s"," ","o","u","r"," ",
          "h","y","p","o","t","h","e","s","i","s">>,
      <<"h","o","w","e","v","e","r">>,
      <<"t","h","e"," ","a","t","t","r","i","b","u","t","e">>,
      <<"i","t"," ","c","o","n","f","i","r","m","s"," ","o","u","r"," ",
          "h","y","p","o","t","h","e","s","i","s">>,
      <<"o","b","v","i","o","u","s","l","y">>,
      <<"T","h","i","s"," ","P","r","o","v","e","s">>,
      <<"5"," ","s","a","m","p","l","e","s">>,
      <<"l","i","m","i","t","e","d"," ","d","a","t","a">>,
      <<"a","l","l"," ","w","o","m","e","n">>,
      <<"m","e","n"," ","n","e","v","e","r">>,
      <<"r","e","c","e","n","t","l","y">>,
      <<"l","a","t","e","s","t">>,
      <<"g","e","n","d","e","r">>,
      <<"f","i","n","e">> }

\* texts loaded with the keywords of one pattern
LoadedArguments ==
    { <<"o","b","v","i","o","u","s","l","y"," ","t","h","i","s"," ","c","o",
        "n","f","i","r","m","s"," ","a","n","d"," ","v","a","l","i","d","a",
        "t","e","s"," ","i","t"," ","t","h","i","s"," ","p","r","o","v","e",
        "s"," ","i","t"," ","a","n","d"," ","c","l","e","a","r","l","y"," ",
        "s","h","o","w","s"," ","i","t">>,
      <<"a","l","l"," ","u","r","b","a","n"," ","a","g","e"," ","g","r","o",
        "u","p"," ","g","e","n","d","e","r"," ","e","t","h","n","i","c","i",
        "t","y"," ","l","o","c","a","t","i","o","n">> }

ArgumentTexts ==
    Phrases \cup {first \o <<" ">> \o second : first, second \in Phrases}
            \cup LoadedArguments

BiasInit ==
    /\ Construct(3, 7000)
    /\ NoCallYet
    /\ pc = "api"
    /\ CollaboratorsIdle

\* what _analyze_argument_bias returns for the lowered text of each argument
AnalysisOf ==
    [argument \in ArgumentTexts |-> _analyze_argument_bias(Lower(argument))]

\* argument_text = arg.argument.lower(), then
\* _analyze_argument_bias(argument_text)
AnalyzeArgumentBias ==
    /\ \E argument \in ArgumentTexts :
       \E scored \in {AnalysisOf[argument]} :
          ret' = [argument |-> argument,
                  argument_text |-> Lower(argument),
                  bias_score |-> scored.bias_score,
                  detected_patterns |-> scored.detected_patterns,
                  added |-> scored.added]
    /\ op' = "_analyze_argument_bias"
    /\ UNCHANGED <<debate, collaborators>>

BiasNext == AnalyzeArgumentBias

BiasSpec == BiasInit /\ [][BiasNext]_vars

----------------------------------------------------------------------------
(* RouterSpec: a ModelRouter and a caller that routes roles, up to         *)
(* MaxRouted times.  _is_model_available draws a random number at every    *)
(* call: a walk is handed the answers its calls get, in the order asked    *)

\* the complexity scores the caller passes
Complexities == {0, 500, 1000}

\* the budget constraints the caller passes, in units of 0.0001: none, 0.0,
\* 0.0001, 0.01 and 0.1
Budgets == {None, Float(0), Float(1), Float(100), Float(1000)}

\* what the calls of _is_model_available of one walk return, in order: a
\* walk asks about the primary model and up to 3 chain entries, and asks no
\* more after the first True -- so n times False, then True
Answers == {[k \in 1..4 |-> k > n] : n \in 0..4}

RouterInit ==
    /\ Construct(3, 7000)
    /\ NoCallYet
    /\ pc = "api"
    /\ CollaboratorsIdle

\* route_agent_model(agent_role, complexity_score, budget_constraint)
RouteAgentModel ==
    /\ TotalCalls(usage_tracking) < MaxRouted
    /\ \E agent_role \in AgentRole, complexity_score \in Complexities,
          budget_constraint \in Budgets, answers \in Answers :
       \E done \in {route_agent_model(usage_tracking, agent_role,
                        complexity_score, budget_constraint, answers)} :
          /\ usage_tracking' = done.usage_tracking
          /\ ret' = [agent_role |-> agent_role,
                     complexity_score |-> complexity_score,
                     budget_constraint |-> budget_constraint,
                     selected_model |-> done.selected_model,
                     asked |-> done.asked,
                     final_model |-> done.final_model]
    /\ op' = "route_agent_model"
    /\ UNCHANGED <<debate, builder, debate_arguments, claims, reports,
                   available_models, tool_context>>

RouterNext == RouteAgentModel

RouterSpec == RouterInit /\ [][RouterNext]_vars

----------------------------------------------------------------------------
(* FallbackSpec: the two availability walks on their own --                *)
(* ModelRouter._try_model_with_fallback for any primary model, and         *)
(* ModelFallbackManager.get_best_available_model of a manager constructed  *)
(* in any environment                                                      *)

\* the environment variables _check_available_models looks at
Environment ==
    {"GOOGLE_CLOUD_PROJECT", "CLAUDE_API_KEY", "OPENAI_API_KEY", "GROK_API_KEY"}

\* the primary models the walk is asked about; "o1" is in no table
PrimaryModels == DOMAIN model_costs \cup {"o1"}

\* the agent types and preferred models the manager is asked about
AgentTypes == DOMAIN fallback_chains \cup {"detective"}
PreferredModels ==
    {None, Str(""), Str("gpt-4"), Str("grok-1"), Str("gemini-1.5-flash"),
     Str("claude-3-opus-20240229"), Str("o1")}

FallbackInit ==
    /\ Construct(3, 7000)
    /\ NoCallYet
    /\ pc = "api"
    /\ builder = BordaConsensusBuilder(400, 600)
    /\ debate_arguments = <<>>
    /\ claims = <<>>
    /\ reports = <<>>
    /\ usage_tracking = << >>
    /\ \E env \in SUBSET Environment :
          available_models = _check_available_models(env)
    /\ tool_context = NewSession

\* _try_model_with_fallback(primary_model)
TryModelWithFallback ==
    /\ \E primary_model \in PrimaryModels, answers \in Answers :
       \E walk \in {_try_model_with_fallback(primary_model, answers)} :
          ret' = [primary_model |-> primary_model,
                  asked |-> walk.asked,
                  model |-> walk.model]
    /\ op' = "_try_model_with_fallback"
    /\ UNCHANGED <<debate, collaborators>>

\* get_best_available_model(agent_type, preferred_model)
GetBestAvailableModel ==
    /\ \E agent_type \in AgentTypes, preferred_model \in PreferredModels :
          ret' = [agent_type |-> agent_type,
                  preferred_model |-> preferred_model,
                  model |-> get_best_available_model(available_models,
                                agent_type, preferred_model)]
    /\ op' = "get_best_available_model"
    /\ UNCHANGED <<debate, collaborators>>

FallbackNext ==
    \/ TryModelWithFallback
    \/ GetBestAvailableModel

FallbackSpec == FallbackInit /\ [][FallbackNext]_vars

----------------------------------------------------------------------------
(* OptimizeSpec: a ModelRouter whose caller asks once for the assignments  *)
(* of up to MaxRoles roles                                                 *)

\* the agent_roles lists the caller passes: roles in any order, none twice
RoleLists ==
    {roles \in UNION {[1..n -> AgentRole] : n \in 0..MaxRoles} :
        \A i, j \in DOMAIN roles : roles[i] = roles[j] => i = j}

\* the budget limits the caller passes, in units of 0.0001: 0.0, 0.01, 0.1
\* and the default 1.0
BudgetLimits == {0, 100, 1000, 10000}

\* optimize_agent_assignments(agent_roles, complexity_score, budget_limit)
OptimizeAgentAssignments ==
    /\ op = "__init__"
    /\ \E agent_roles \in RoleLists, complexity_score \in Complexities,
          budget_limit \in BudgetLimits :
       \E walks \in [1..Len(OrderedAgents(agent_roles)) -> Answers] :
       \E done \in {optimize_agent_assignments(usage_tracking, agent_roles,
                        complexity_score, budget_limit, walks)} :
          /\ usage_tracking' = done.usage_tracking
          /\ ret' = [agent_roles |-> agent_roles,
                     complexity_score |-> complexity_score,
                     budget_limit |-> budget_limit,
                     assignments |-> done.assignments]
    /\ op' = "optimize_agent_assignments"
    /\ UNCHANGED <<debate, builder, debate_arguments, claims, reports,
                   available_models, tool_context>>

OptimizeNext == OptimizeAgentAssignments

OptimizeSpec == RouterInit /\ [][OptimizeNext]_vars

----------------------------------------------------------------------------
(* AuditSpec: a DebateLogger that is handed a debate context and up to     *)
(* MaxLogged arguments, in any order and with any timestamps               *)

\* the arguments the caller hands to the logger
LoggedArguments ==
    {[agent_name |-> agent, argument |-> TextButNo, evidence |-> <<"e1">>,
      confidence |-> 500, timestamp |-> timestamp, round_number |-> 1]
        : agent \in {"optimist", "pessimist"}, timestamp \in 0..MaxClock}

AuditInit ==
    /\ Construct(3, 7000)
    /\ pc = "api"
    /\ op = "__init__"
    /\ ret = None
    /\ invocations = <<>>
    /\ round_start_log = <<>>
    /\ \E start_time \in 0..MaxClock :
          /\ now = start_time
          /\ debate_context = [py |-> "dict", question |-> Question,
                               agents |-> <<"optimist", "pessimist">>,
                               start_time |-> start_time,
                               debate_id |-> start_time]
    /\ \E n \in 0..MaxLogged : debate_arguments \in [1..n -> LoggedArguments]
    /\ builder = BordaConsensusBuilder(400, 600)
    /\ claims = <<>>
    /\ reports = <<>>
    /\ usage_tracking = << >>
    /\ available_models = _check_available_models({})
    /\ tool_context = NewSession

\* _build_audit_trail(debate_context, arguments)
BuildAuditTrail ==
    /\ ret' = _build_audit_trail(debate_context, debate_arguments)
    /\ op' = "_build_audit_trail"
    /\ UNCHANGED <<debate, collaborators>>

AuditNext == BuildAuditTrail

AuditSpec == AuditInit /\ [][AuditNext]_vars

----------------------------------------------------------------------------
(* CacheSpec: a session in which the root agent calls call_db_agent with   *)
(* one question after another                                              *)

\* the questions asked: "B?", the same question in lower case with a blank
\* after it, and another question
Questions ==
    { <<"B", "?">>, <<"b", "?", " ">>, <<"T", "?">> }

\* the query results the database agent stores: no rows; rows without a
\* demographic field; rows with a Gender field; rows with a segment field
\* and a date
Datasets ==
    { Dataset(<<>>, <<>>),
      Dataset(<< <<"i","d">> >>, << <<1>>, <<2>> >>),
      Dataset(<< <<"i","d">>, <<"G","e","n","d","e","r">> >>, << <<1, 1>> >>),
      Dataset(<< <<"s","e","g","m","e","n","t">>, <<"d","a","t","e">> >>,
              << <<1, 3>>, <<2, 0>>, <<1, 2>> >>) }

\* what an invocation of the database agent comes to: it raises, it answers
\* without having run a query, or it answers having stored a query result
DbOutcomes == {InvocationError, None} \cup Datasets

ToolsInit ==
    /\ Construct(3, 7000)
    /\ NoCallYet
    /\ pc = "api"
    /\ CollaboratorsIdle

\* call_db_agent(question, tool_context) with one of the given questions
CallDbAgentAsking(questions) ==
    /\ \E question \in questions, primary \in DbOutcomes, fallback \in DbOutcomes :
       \E done \in {call_db_agent(tool_context, question, primary, fallback, now)} :
          /\ tool_context' = done.state
          /\ ret' = [question |-> question, value |-> done.ret]
          /\ invocations' = done.invoked
    /\ op' = "call_db_agent"
    /\ UNCHANGED <<moderator, now, debate_context, round_start_log, pc, builder,
                   debate_arguments, claims, reports, usage_tracking,
                   available_models>>

CallDbAgent == CallDbAgentAsking(Questions)

CacheNext == CallDbAgent

CacheSpec == ToolsInit /\ [][CacheNext]_vars

----------------------------------------------------------------------------
(* CouncilSpec: a session in which the root agent calls call_db_agent and  *)
(* initiate_council_debate, in any order                                   *)

\* the agents of the council
CouncilAgents ==
    {"optimist_analyst_agent", "pessimist_critic_agent",
     "ethical_auditor_agent", "synthesis_moderator_agent"}

\* what the invocations of one debate come to: at most one agent raises
CouncilOutcomes ==
    {[agent \in CouncilAgents |->
        IF agent = failing THEN InvocationError ELSE [py |-> "str"]]
        : failing \in CouncilAgents \cup {"none"}}

CouncilCallDbAgent == CallDbAgentAsking({<<"B", "?">>})

\* initiate_council_debate(question, tool_context)
InitiateCouncilDebate ==
    /\ \E outcome \in CouncilOutcomes :
       \E done \in {initiate_council_debate(tool_context, <<"B", "?">>, outcome, now)} :
          /\ tool_context' = done.state
          /\ ret' = [question |-> <<"B", "?">>, value |-> done.ret]
          /\ invocations' = done.invoked
    /\ op' = "initiate_council_debate"
    /\ UNCHANGED <<moderator, now, debate_context, round_start_log, pc, builder,
                   debate_arguments, claims, reports, usage_tracking,
                   available_models>>

CouncilNext ==
    \/ CouncilCallDbAgent
    \/ InitiateCouncilDebate

CouncilSpec == ToolsInit /\ [][CouncilNext]_vars

----------------------------------------------------------------------------
(* ResetSpec: a caller that runs rounds of a debate and, once the log      *)
(* holds arguments, starts a second debate on the same moderator and runs  *)
(* its rounds                                                              *)

ResetInit ==
    /\ Construct(3, 7000)
    /\ NoCallYet
    /\ pc = "start"
    /\ CollaboratorsIdle

\* the first debate is started
ResetFirstDebate ==
    /\ pc = "start"
    /\ \E agents \in Rosters : initiate_debate(agents, 0)
    /\ pc' = "first"
    /\ UNCHANGED collaborators

\* a round of the debate under way
ResetRound ==
    /\ pc \in {"first", "second"}
    /\ FacilitateRoundTicking(0..1)
    /\ UNCHANGED <<pc, collaborators>>

\* the second debate is started on the moderator that holds the first
\* debate's arguments
ResetSecondDebate ==
    /\ pc = "first"
    /\ debate_log # <<>>
    /\ \E agents \in Rosters, tick \in 0..1 : initiate_debate(agents, tick)
    /\ pc' = "second"
    /\ UNCHANGED collaborators

ResetNext ==
    \/ ResetFirstDebate
    \/ ResetRound
    \/ ResetSecondDebate

ResetSpec == ResetInit /\ [][ResetNext]_vars

----------------------------------------------------------------------------
(* Claims *)

\* C1: the max-round cap dominates every other stopping rule -- whenever
\* current_round >= max_rounds, should_continue_debate returns false for
\* every metrics value, high conflict with low consensus included.
C1_RoundCapDominates ==
    (op = "should_continue_debate" /\ current_round >= max_rounds)
        => ret.value = FALSE

\* C1 witness: the cap is reached, the metrics satisfy the high-conflict rule,
\* and the answer is false.
C1_Witness ==
    /\ op = "should_continue_debate"
    /\ current_round >= max_rounds
    /\ ret.metrics.conflict_intensity > conflict_threshold
    /\ ret.metrics.consensus_level < 600
    /\ ret.value = FALSE

\* C2: strong consensus stops the debate -- whenever consensus_level > 0.8,
\* should_continue_debate returns false, whatever the round counter,
\* max_rounds, conflict_intensity and conflict_threshold are.
C2_StrongConsensusStops ==
    (op = "should_continue_debate" /\ ret.metrics.consensus_level > 800)
        => ret.value = FALSE

\* C2 witness: max_rounds = 3, conflict_threshold = 7.0, round 1 has just run
\* and consensus_level is 0.9; the answer is false although rounds remain.
C2_Witness ==
    /\ op = "should_continue_debate"
    /\ max_rounds = 3
    /\ conflict_threshold = 7000
    /\ current_round = 1
    /\ ret.metrics.consensus_level = 900
    /\ ret.value = FALSE

\* C3: the number of rounds is bounded -- for max_rounds >= 1 the driver
\* terminates and current_round never exceeds max_rounds, whatever the agents
\* answer.
C3_RoundsBounded ==
    /\ [](max_rounds >= 1 => current_round <= max_rounds)
    /\ <>(pc = "done")

\* C3 witness: the driver has stopped after running max_rounds >= 2 rounds,
\* the last of them with high conflict and low consensus.
C3_Witness ==
    /\ pc = "done"
    /\ max_rounds >= 2
    /\ current_round = max_rounds
    /\ ret.metrics.conflict_intensity > conflict_threshold
    /\ ret.metrics.consensus_level < 600


\* the answers that became arguments, in invocation order
RECURSIVE Answered(_)
Answered(calls) ==
    IF calls = <<>> THEN <<>>
    ELSE IF Truthy(Head(calls).outcome)
         THEN <<Head(calls)>> \o Answered(Tail(calls))
         ELSE Answered(Tail(calls))

IsPrefix(s, t) == Len(s) <= Len(t) /\ SubSeq(t, 1, Len(s)) = s

\* (round_number, timestamp) of a before-or-equal that of b
NotAfter(a, b) ==
    \/ a.round_number < b.round_number
    \/ a.round_number = b.round_number /\ a.timestamp <= b.timestamp

\* C4: the metrics facilitate_round returns satisfy conflict_intensity in
\* [1,10], consensus_level = 1 - conflict_intensity/10 exactly, and
\* conflict_intensity = min(10, 1 + 9 * disagreeing_pairs / total_pairs) over
\* the unordered pairs of the round's arguments, 1.0 with fewer than two.
C4_MetricsFormula ==
    op = "facilitate_round" =>
        LET args == ret.round_arguments
            n == Len(args)
            total == (n * (n - 1)) \div 2
            quiet == Cardinality({k \in 1..n :
                        \A w \in DOMAIN conflict_keywords :
                            ~Contains(conflict_keywords[w], Lower(args[k].argument))})
            disagreeing == total - (quiet * (quiet - 1)) \div 2
            ci == ret.metrics.conflict_intensity
            cl == ret.metrics.consensus_level
        IN /\ 1 * Scale <= ci /\ ci <= 10 * Scale
           /\ 10 * cl = 10 * Scale - ci
           /\ n < 2 => ci = 1 * Scale
           /\ n >= 2 => ci * total = Min(10 * Scale * total,
                                         Scale * total + 9 * Scale * disagreeing)

\* C4 witness: a round of three arguments of which one carries a conflict
\* keyword: 2 of 3 pairs disagree, intensity 7.0, consensus 0.3.
C4_Witness ==
    /\ op = "facilitate_round"
    /\ Len(ret.round_arguments) = 3
    /\ ret.metrics.conflict_intensity = 7000
    /\ ret.metrics.consensus_level = 300

\* C5: within a session the debate log is append-only -- a facilitate_round
\* call leaves every earlier entry in place and unchanged -- and the entries
\* stay in non-decreasing (round_number, timestamp) order.
C5_LogAppendOnly ==
    /\ [][op' = "facilitate_round" => IsPrefix(debate_log, debate_log')]_vars
    /\ [](\A i, j \in DOMAIN debate_log :
             i < j => NotAfter(debate_log[i], debate_log[j]))

\* C5 witness: a second round has appended to a non-empty log, and the clock
\* advanced within the session.
C5_Witness ==
    /\ op = "facilitate_round"
    /\ current_round = 2
    /\ round_start_log # <<>>
    /\ Len(debate_log) > Len(round_start_log) + 1
    /\ debate_log[1].timestamp < debate_log[Len(debate_log)].timestamp

DebateStalled == [py |-> "DebateStalled"]
InvalidConfiguration == [py |-> "InvalidConfiguration"]

\* C7: a round in which no agent of the roster produces an argument is
\* fatal -- facilitate_round surfaces DebateStalled instead of returning
\* metrics.
C7_EmptyRoundStalls ==
    (/\ op = "facilitate_round"
     /\ debate_context.agents # <<>>
     /\ \A k \in DOMAIN invocations : ~Truthy(invocations[k].outcome))
        => ret = DebateStalled

\* C8: initiate_debate with an empty roster fails with InvalidConfiguration
\* and returns no debate context.
C8_EmptyRosterRejected ==
    (op = "initiate_debate" /\ debate_context.agents = <<>>)
        => ret = InvalidConfiguration

\* C9: within a round every agent's context is derived only from the log as
\* of the round's start; no argument appended during the round appears in the
\* context built for another agent in that round.
C9_ContextFromRoundStart ==
    op = "facilitate_round" =>
        \A k \in DOMAIN invocations :
            invocations[k].context =
                _build_agent_context(round_start_log, invocations[k].agent_name)

\* the log entries the agent did not author
Opponents(log, agent_name) ==
    LET Other(arg) == arg.agent_name # agent_name IN SelectSeq(log, Other)

\* C10 (as stated): the context holds exactly the 6 most recent log entries
\* authored by other agents (all of them when fewer than 6 exist), and never
\* an entry of the agent itself.
C10_SixMostRecentOpponents ==
    op = "_build_agent_context" =>
        LET others == Opponents(debate_log, ret.agent_name)
            first == IF Len(others) > 6 THEN Len(others) - 5 ELSE 1
            blocks == ret.context.blocks
        IN /\ Len(blocks) = Len(others) - first + 1
           /\ \A k \in DOMAIN blocks : blocks[k] = ContextBlock(others[first + k - 1])
           /\ \A k \in DOMAIN blocks : blocks[k].agent_name # ret.agent_name

\* C10 (amended): the context holds exactly those of the 6 most recent log
\* entries (of all entries, when the log has fewer than 6) that other agents
\* authored, in log order, and never an entry of the agent itself.
C10_OpponentsAmongLastSix ==
    op = "_build_agent_context" =>
        LET n == Len(debate_log)
            window == {k \in 1..n : k > n - 6}
            kept == {k \in window : debate_log[k].agent_name # ret.agent_name}
            blocks == ret.context.blocks
        IN /\ Len(blocks) = Cardinality(kept)
           /\ \A k \in kept :
                 blocks[Cardinality({j \in kept : j <= k})] = ContextBlock(debate_log[k])
           /\ \A k \in DOMAIN blocks : blocks[k].agent_name # ret.agent_name
           /\ ret.context.header = (n > 0)

\* C10 witness: a log of more than 6 entries with at least 6 of other agents,
\* where the window holds an entry of the agent itself and the context so has
\* fewer than 6 blocks.
C10_Witness ==
    /\ op = "_build_agent_context"
    /\ Len(debate_log) > 6
    /\ Len(Opponents(debate_log, ret.agent_name)) >= 6
    /\ Len(ret.context.blocks) < 6
    /\ Len(ret.context.blocks) > 0

\* the voters with a higher confidence than voter k: the 0-based position at
\* which the confidence of k first stands when the votes are sorted descending
HigherVotes(votes, k) == Cardinality({j \in DOMAIN votes : votes[j] > votes[k]})

\* C11: the Borda score of a claim is sum(points * confidence) / total_voters
\* with points = total_voters - rank, the rank of a voter being the 0-based
\* position of the first occurrence of its confidence among the confidences
\* sorted descending (tied voters share it); a claim without voters scores 0,
\* and the confidences 0.9, 0.5, 0.2 give the points 3, 2, 1 and the score 1.3.
C11_BordaScoring ==
    op = "_calculate_borda_scores" =>
        LET claim == ret.claims[1]
            votes == Votes(claim)
            total_voters == Len(votes)
            points == [k \in DOMAIN votes |-> total_voters - HigherVotes(votes, k)]
            score == ret.borda_scores[claim.statement]
        IN  /\ total_voters = 0 => score = 0
            /\ total_voters > 0 =>
                  score = Sum([k \in DOMAIN votes |-> points[k] * votes[k]])
                              \div total_voters
            /\ votes = <<900, 500, 200>> => points = <<3, 2, 1>> /\ score = 1300

\* C11 witness: claims of the confidences 0.9, 0.5, 0.2, of two tied voters and
\* of no voter have been scored -- here the tied one
C11_Witness ==
    /\ op = "_calculate_borda_scores"
    /\ Votes(ret.claims[1]) = <<500, 900, 900>>
    /\ ret.borda_scores[ret.claims[1].statement] = 1966

\* the sentences of the arguments handed to build_consensus, trimmed
TrimmedSentences(arguments) ==
    UNION { {Strip(sentence) : sentence \in Range(Split(arguments[i].argument))} :
            i \in DOMAIN arguments }

\* C12: claim extraction discards exactly the sentences under 20 characters --
\* a sentence of trimmed length 20 or more is the statement of a claim, and no
\* claim's statement is a sentence of fewer than 20 characters.
C12_TwentyCharactersKept ==
    op = "build_consensus" =>
        /\ \A sentence \in TrimmedSentences(debate_arguments) :
              Len(sentence) >= 20 => sentence \in Statements(claims)
        /\ \A statement \in Statements(claims) :
              /\ statement \in TrimmedSentences(debate_arguments)
              /\ Len(statement) >= 20

\* the Claim objects of the last run whose statement a list of insights names
Named(insights) ==
    {i \in DOMAIN claims : \E k \in DOMAIN insights : insights[k].claim = claims[i].statement}

\* the highest final_score of the last run, 0 without claims
TopScore ==
    IF claims = <<>> THEN 0
    ELSE CHOOSE s \in {claims[i].final_score : i \in DOMAIN claims} :
            \A i \in DOMAIN claims : claims[i].final_score <= s

\* C13: in every consensus report every claim has final_score >= 0,
\* primary_insights holds at most 3 claims, each scoring at least 0.8 of the
\* top score, secondary_insights holds at most 5 claims, each scoring from 0.5
\* of the top score up to but not including 0.8 of it, and no claim is in both.
C13_ScoreBands ==
    op = "build_consensus" =>
        /\ \A i \in DOMAIN claims : claims[i].final_score >= 0
        /\ Len(ret.primary_insights) <= 3
        /\ Len(ret.secondary_insights) <= 5
        /\ \A k \in DOMAIN ret.primary_insights :
              /\ Named(<<ret.primary_insights[k]>>) # {}
              /\ ret.primary_insights[k].confidence * Scale >= 800 * TopScore
        /\ \A k \in DOMAIN ret.secondary_insights :
              /\ Named(<<ret.secondary_insights[k]>>) # {}
              /\ ret.secondary_insights[k].confidence * Scale >= 500 * TopScore
              /\ ret.secondary_insights[k].confidence * Scale < 800 * TopScore
        /\ \A i \in Named(ret.primary_insights) \cup Named(ret.secondary_insights) :
              \A k \in DOMAIN ret.primary_insights \cup DOMAIN ret.secondary_insights :
                 /\ (k \in DOMAIN ret.primary_insights
                        /\ ret.primary_insights[k].claim = claims[i].statement)
                       => ret.primary_insights[k].confidence = claims[i].final_score
                 /\ (k \in DOMAIN ret.secondary_insights
                        /\ ret.secondary_insights[k].claim = claims[i].statement)
                       => ret.secondary_insights[k].confidence = claims[i].final_score
        /\ Named(ret.primary_insights) \cap Named(ret.secondary_insights) = {}

\* C13 witness: a report of more than 3 claims in the primary band and more
\* than 5 in the secondary band, with both lists cut to their caps
C13_Witness ==
    /\ op = "build_consensus"
    /\ Len(ret.primary_insights) = 3
    /\ Len(ret.secondary_insights) = 5
    /\ Cardinality({i \in DOMAIN claims :
                       claims[i].final_score * Scale >= 800 * TopScore}) > 3
    /\ Cardinality({i \in DOMAIN claims :
                       /\ claims[i].final_score * Scale >= 500 * TopScore
                       /\ claims[i].final_score * Scale < 800 * TopScore}) > 5

Reorderings(arguments) ==
    { [i \in DOMAIN arguments |-> arguments[p[i]]] :
        p \in {q \in [DOMAIN arguments -> DOMAIN arguments] :
                  \A i, j \in DOMAIN arguments : q[i] = q[j] => i = j} }

\* no two arguments of the list contribute the same sentence
NoOverlap(arguments) ==
    \A i, j \in DOMAIN arguments :
        i # j => TrimmedSentences(<<arguments[i]>>)
                    \cap TrimmedSentences(<<arguments[j]>>) = {}

\* C15: when no two arguments contribute the same sentence, build_consensus
\* returns the same report for the arguments in any order, claims of equal
\* final_score included.
C15_OrderIndependent ==
    (op = "build_consensus" /\ NoOverlap(debate_arguments)) =>
        \A reordered \in Reorderings(debate_arguments) :
            build_consensus(builder, reordered).report = ret

\* the claims of the last run that have at least 2 voters
SharedClaims == SelectSeq(claims, LAMBDA c : Len(c.agent_votes) >= 2)

\* C16: agreement_level is the mean over the claims with at least 2 voters
\* only -- single-voter claims do not enter the average, so one claim whose 2
\* voters gave the same positive confidence, with any number of single-voter
\* claims beside it, makes agreement_level 1.
C16_AgreementOverSharedClaims ==
    (op = "build_consensus" /\ SharedClaims # <<>>) =>
        /\ ret.agreement_level =
              Sum([i \in DOMAIN SharedClaims |-> Agreement(SharedClaims[i])])
                  \div Len(SharedClaims)
        /\ ( /\ Len(SharedClaims) = 1
             /\ Len(SharedClaims[1].agent_votes) = 2
             /\ SharedClaims[1].agent_votes[1].confidence
                   = SharedClaims[1].agent_votes[2].confidence
             /\ SharedClaims[1].agent_votes[1].confidence > 0 )
              => ret.agreement_level = Scale

ThisProvesOurHypothesis ==
    <<"t","h","i","s"," ","p","r","o","v","e","s"," ","o","u","r"," ","h",
      "y","p","o","t","h","e","s","i","s">>

\* what the confirmation-bias pattern added to the score of the last argument
ConfirmationAdded ==
    LET i == CHOOSE i \in DOMAIN ret.added : ret.added[i].name = "confirmation_bias"
    IN  ret.added[i].score

\* C17: an argument whose text contains a confirmation phrase, such as "this
\* proves our hypothesis", and none of the counter-argument connectives
\* however, but, although, despite, alternatively gets at least 0.25 from
\* confirmation bias and has "confirmation_bias" among its matched patterns.
C17_ConfirmationBiasDetected ==
    ( /\ op = "_analyze_argument_bias"
      /\ \/ Contains(ThisProvesOurHypothesis, Lower(ret.argument))
         \/ Occurring(confirmation_phrases, Lower(ret.argument)) > 0
      /\ Occurring(counter_indicators, Lower(ret.argument)) = 0 )
        => /\ ConfirmationAdded >= 250
           /\ "confirmation_bias" \in Range(ret.detected_patterns)

\* C17 witness: "this proves our hypothesis", with nothing else in the text,
\* has been scored: 0.15 for the phrase and 0.1 for the missing connective
C17_Witness ==
    /\ op = "_analyze_argument_bias"
    /\ ret.argument = ThisProvesOurHypothesis
    /\ ConfirmationAdded = 250
    /\ ret.detected_patterns = <<"confirmation_bias">>

\* the role's preferred models that meet the capability threshold of the
\* last route_agent_model call
Qualified ==
    LET preferences == role_preferences[ret.agent_role]
    IN  {model \in Range(preferences.preferred_models) :
            /\ model \in DOMAIN model_capabilities
            /\ model_capabilities[model][preferences.primary_capability] * Scale
                  >= 600 * Scale + 300 * ret.complexity_score}

\* C18 as stated: with no budget, route_agent_model returns, whatever the
\* role, the complexity and the availability of the backends, a backend of
\* the role's preferred list whose capability on the role's primary skill is
\* at least 0.6 + 0.3 * complexity, or the designated fallback; for the ethical
\* role at complexity 0.5 that is a backend of ethics >= 0.75 of the ethical
\* preferred list, or the designated fallback.
C18_QualifiedOrFallback ==
    (op = "route_agent_model" /\ ret.budget_constraint = None) =>
        /\ ret.final_model \in Qualified \cup {"gemini-flash"}
        /\ (ret.agent_role = "ethical_auditor" /\ ret.complexity_score = 500) =>
              \/ /\ ret.final_model \in {"gpt-4", "claude-3-opus", "claude-3-sonnet"}
                 /\ model_capabilities[ret.final_model].ethics >= 750
              \/ ret.final_model = "gemini-flash"

\* C18 amended: with no budget, route_agent_model selects a backend of the
\* role's preferred list that meets the threshold, one of the highest
\* capability among those (the designated fallback when none meets it), and
\* returns it when it is available; when it is not, the result is an entry of
\* the selected backend's fallback chain or the designated fallback -- a
\* backend that need not be preferred by the role nor meet the threshold.
C18_SelectedQualifiedOrFallback ==
    (op = "route_agent_model" /\ ret.budget_constraint = None) =>
        LET skill == role_preferences[ret.agent_role].primary_capability
        IN  /\ \/ /\ ret.selected_model \in Qualified
                  /\ \A model \in Qualified :
                        model_capabilities[model][skill]
                           <= model_capabilities[ret.selected_model][skill]
               \/ Qualified = {} /\ ret.selected_model = "gemini-flash"
            /\ ret.asked[1] = [model |-> ret.selected_model, available |-> TRUE]
                  => ret.final_model = ret.selected_model
            /\ ret.final_model \in {ret.selected_model, "gemini-flash"}
                                    \cup Range(ChainOf(ret.selected_model))

\* C18 witness: the ethical auditor is routed at complexity 0.5 with no
\* budget while gpt-4, claude-3-opus and claude-3-sonnet are unavailable: the
\* result is gemini-1.5-pro, which the ethical role does not prefer
C18_Witness ==
    /\ op = "route_agent_model"
    /\ ret.budget_constraint = None
    /\ ret.agent_role = "ethical_auditor"
    /\ ret.complexity_score = 500
    /\ ret.selected_model = "gpt-4"
    /\ ret.final_model = "gemini-1.5-pro"

\* the preferred models of the last route_agent_model call that survive the
\* capability filter and, when a budget is given, the budget filter
Survivors ==
    {model \in Qualified :
        BudgetGiven(ret.budget_constraint) =>
            model_costs[model] <= ret.budget_constraint.value}

\* the backends of the cost table with the minimum cost per 1K tokens
Cheapest ==
    {model \in DOMAIN model_costs :
        \A other \in DOMAIN model_costs : model_costs[model] <= model_costs[other]}

\* C19: when no backend of the role's preferred list survives the capability
\* and budget filters, route_agent_model selects the single cheapest backend
\* of the cost table, the one of minimum cost per 1K tokens.
C19_CheapestSelected ==
    (op = "route_agent_model" /\ Survivors = {}) =>
        /\ Cardinality(Cheapest) = 1
        /\ ret.selected_model \in Cheapest

\* the backends a walk goes through, in order: the chosen one, then its chain
WalkOrder ==
    IF op = "_try_model_with_fallback"
    THEN <<ret.primary_model>>
            \o (IF ret.primary_model \in DOMAIN fallback_chain
                THEN fallback_chain[ret.primary_model] ELSE <<"gemini-flash">>)
    ELSE (IF ret.preferred_model \in {None, Str("")}
          THEN <<>> ELSE <<ret.preferred_model.value>>)
            \o (IF ret.agent_type \in DOMAIN fallback_chains
                THEN fallback_chains[ret.agent_type]
                ELSE <<"gemini-2.0-flash-001">>)

\* C20: availability resolution is a deterministic ordered walk that never
\* fails -- it returns the chosen backend when that is available, otherwise
\* the first available entry of the fallback chain in chain order (never a
\* later entry while an earlier one is available), and the universal fallback
\* when the whole chain is unavailable.
C20_OrderedWalk ==
    /\ op = "_try_model_with_fallback" =>
          LET last == ret.asked[Len(ret.asked)]
          IN  /\ Len(ret.asked) \in 1..Len(WalkOrder)
              /\ \A k \in DOMAIN ret.asked :
                    /\ ret.asked[k].model = WalkOrder[k]
                    /\ k < Len(ret.asked) => ~ret.asked[k].available
              /\ last.available => ret.model = last.model
              /\ ~last.available =>
                    Len(ret.asked) = Len(WalkOrder) /\ ret.model = "gemini-flash"
    /\ op = "get_best_available_model" =>
          LET usable == {k \in DOMAIN WalkOrder :
                            WalkOrder[k] \in Range(available_models)}
          IN  ret.model =
                 IF usable = {} THEN "gemini-2.0-flash-001"
                 ELSE WalkOrder[CHOOSE k \in usable : \A j \in usable : k <= j]

\* C20 witness: the walk for gpt-4 found gpt-4 and claude-3-opus unavailable
\* and returned claude-3-sonnet, the next of the chain
C20_Witness ==
    /\ op = "_try_model_with_fallback"
    /\ ret.primary_model = "gpt-4"
    /\ ret.asked = <<[model |-> "gpt-4", available |-> FALSE],
                     [model |-> "claude-3-opus", available |-> FALSE],
                     [model |-> "claude-3-sonnet", available |-> TRUE]>>
    /\ ret.model = "claude-3-sonnet"

\* the sum of the costs of the backends assigned
AssignedCost(assignments) ==
    Sum([i \in DOMAIN priority_order |->
            IF priority_order[i] \in DOMAIN assignments
            THEN CostOf(assignments[priority_order[i]]) ELSE 0])

\* C21: optimize_agent_assignments assigns backends within the budget -- for
\* every list of requested roles, complexity, budget_limit >= 0 and
\* availability of the backends, the costs of the assigned backends sum to
\* no more than budget_limit
C21_WithinBudget ==
    op = "optimize_agent_assignments"
        => AssignedCost(ret.assignments) <= ret.budget_limit

\* the events of the trail of the given type
EventsOfType(trail, event_type) ==
    {i \in DOMAIN trail : trail[i].event_type = event_type}

\* C22: the audit trail is sorted by timestamp (non-decreasing) for every
\* order and timing of the arguments, and holds exactly one debate_initiated
\* event plus one argument_submitted event per argument
C22_AuditTrailSorted ==
    op = "_build_audit_trail" =>
        /\ \A i, j \in DOMAIN ret : i <= j => ret[i].timestamp <= ret[j].timestamp
        /\ Cardinality(EventsOfType(ret, "debate_initiated")) = 1
        /\ \E event_of \in [DOMAIN debate_arguments
                                -> EventsOfType(ret, "argument_submitted")] :
              /\ \A i, j \in DOMAIN debate_arguments :
                    event_of[i] = event_of[j] => i = j
              /\ \A e \in EventsOfType(ret, "argument_submitted") :
                    \E i \in DOMAIN debate_arguments : event_of[i] = e
              /\ \A i \in DOMAIN debate_arguments :
                    ret[event_of[i]] = ArgumentEvent(debate_arguments[i])

\* three arguments handed over latest first, the first of them stamped
\* before the debate started
C22_Witness ==
    /\ op = "_build_audit_trail"
    /\ Len(debate_arguments) = 3
    /\ debate_arguments[1].timestamp > debate_arguments[2].timestamp
    /\ debate_arguments[2].timestamp > debate_arguments[3].timestamp
    /\ debate_arguments[3].timestamp < debate_context.start_time

\* the position of a phase in the DebatePhase order
PhaseIndex(p) == CHOOSE i \in DOMAIN DebatePhase : DebatePhase[i] = p

\* C23: the moderator's observable phase only ever advances along
\* INITIALIZATION -> OPENING_STATEMENTS -> ADVERSARIAL_EXCHANGE ->
\* EVIDENCE_REVIEW -> CONSENSUS_BUILDING -> FINAL_SYNTHESIS -- no operation
\* moves it backwards or past the next phase, and only initiate_debate
\* returns it to INITIALIZATION
C23_PhaseOrder ==
    [][\/ phase' = phase
       \/ PhaseIndex(phase') = PhaseIndex(phase) + 1
       \/ op' = "initiate_debate" /\ phase' = "INITIALIZATION"]_vars

\* a session in which two rounds were facilitated and the stopping decision
\* was asked for
C23_Witness ==
    /\ op = "should_continue_debate"
    /\ current_round >= 2
    /\ debate_log # <<>>
    /\ phase \in Range(DebatePhase)

\* a field name of the session's query_result holds one of the indicators
DemographicField ==
    /\ "query_result" \in DOMAIN tool_context
    /\ \E k \in DOMAIN tool_context["query_result"].columns :
          AnyIn(demographic_indicators,
                Lower(tool_context["query_result"].columns[k]))

\* the ethical auditor agent was invoked in the last tool call
EthicalAuditorInvoked ==
    \E i \in DOMAIN invocations : invocations[i].agent = "ethical_auditor_agent"

\* the last tool call was a council debate that ran to its synthesis
DebateCompleted ==
    /\ op = "initiate_council_debate"
    /\ ret.value.by = "synthesis_moderator_agent"

\* C24: the demographic gate opens whenever a field name of query_result
\* contains, case-insensitively, one of the fixed indicators -- the ethical
\* auditor agent is then invoked in initiate_council_debate, whether or not
\* a data_assessment of an earlier database call is in the session state
C24_DemographicGateOpens ==
    DebateCompleted /\ DemographicField => EthicalAuditorInvoked

\* C30: the debate metadata stored by initiate_council_debate agrees with
\* what ran -- demographic_analysis_performed is true and the participants
\* name 'ethical_auditor' only if the ethical auditor agent was invoked in
\* that debate; when it was not invoked, ethical_agent_output holds the
\* 'not applicable' notice and the metadata records the audit as skipped
C30_MetadataAgrees ==
    DebateCompleted =>
        LET debate_metadata == tool_context["debate_metadata"]
        IN  /\ debate_metadata.demographic_analysis_performed
                  => EthicalAuditorInvoked
            /\ "ethical_auditor" \in Range(debate_metadata.participants)
                  => EthicalAuditorInvoked
            /\ ~EthicalAuditorInvoked =>
                  /\ tool_context["ethical_agent_output"] = NotApplicableNotice
                  /\ ~debate_metadata.demographic_analysis_performed
                  /\ "ethical_auditor_skipped"
                        \in Range(debate_metadata.participants)

\* the last call of call_db_agent returned the cached output without
\* invoking the database agent
ServedFromCache == op = "call_db_agent" /\ invocations = <<>>

\* C29: the call_db_agent query cache never serves another question's
\* result -- whenever a call returns the cached db_agent_output without
\* invoking the database agent, that output is one the database agent
\* produced for a question with the same fingerprint
C29_CacheServesOwnResult ==
    ServedFromCache =>
        /\ ret.value.by = "db_agent"
        /\ generate_query_fingerprint(ret.value.request.question)
              = generate_query_fingerprint(ret.question)

\* C25: initiate_debate resets the moderator whatever its previous state --
\* after it returns, the debate log is empty, the round counter is 0 and the
\* phase is INITIALIZATION, so no argument of an earlier debate appears in
\* the new session's log or contexts: every entry of the log was stamped in
\* the session, by an agent of its roster, in one of its rounds, and every
\* context handed to an agent was built from the session's own log
C25_InitiateResets ==
    /\ op = "initiate_debate" =>
          /\ debate_log = <<>>
          /\ current_round = 0
          /\ phase = "INITIALIZATION"
    /\ debate_context # None =>
          /\ \A i \in DOMAIN debate_log :
                /\ debate_log[i].timestamp >= debate_context.start_time
                /\ debate_log[i].agent_name \in Range(debate_context.agents)
                /\ debate_log[i].round_number \in 1..current_round
          /\ Len(debate_log) <= current_round * Len(debate_context.agents)
          /\ \A k \in DOMAIN invocations :
                \E n \in Len(round_start_log)..Len(debate_log) :
                   invocations[k].context
                      = _build_agent_context(SubSeq(debate_log, 1, n),
                                             invocations[k].agent_name)

\* the second debate has just been started on a moderator that held the
\* arguments of the first
C25_Witness ==
    /\ pc = "second"
    /\ op = "initiate_debate"
    /\ debate_context.start_time > 0
    /\ debate_log = <<>>

\* the score each pattern accumulates on the last argument scored
AccumulatedScores ==
    [i \in DOMAIN bias_patterns |->
        PatternScore(bias_patterns[i], ret.argument_text)]

\* C26: a pattern fires (is listed in the matched patterns) exactly when its
\* accumulated score -- severity * 0.2 per matching keyword plus the
\* pattern's booster -- exceeds 0.1, and the argument's bias score is the sum
\* of the fired patterns' accumulated scores, capped at 1.0
C26_FiredPatternsSummed ==
    op = "_analyze_argument_bias" =>
        LET fired == {i \in DOMAIN bias_patterns : AccumulatedScores[i] > 100}
        IN  /\ Range(ret.detected_patterns)
                  = {bias_patterns[i].name : i \in fired}
            /\ ret.bias_score
                  = Min(Sum([i \in DOMAIN bias_patterns |->
                                IF i \in fired THEN AccumulatedScores[i] ELSE 0]),
                        Scale)

\* C26 as the code has it: a pattern fires exactly when its accumulated score
\* exceeds 0.1, each fired pattern contributes its accumulated score capped
\* at the pattern's severity, and the argument's bias score is the sum of
\* those contributions, capped at 1.0
C26_FiredPatternsCapped ==
    op = "_analyze_argument_bias" =>
        LET fired == {i \in DOMAIN bias_patterns : AccumulatedScores[i] > 100}
        IN  /\ Range(ret.detected_patterns)
                  = {bias_patterns[i].name : i \in fired}
            /\ ret.bias_score
                  = Min(Sum([i \in DOMAIN bias_patterns |->
                                IF i \in fired
                                THEN Min(AccumulatedScores[i],
                                         bias_patterns[i].severity)
                                ELSE 0]),
                        Scale)

\* an analysed argument with a fired pattern whose accumulated score is above
\* the pattern's severity
C26_Witness ==
    /\ op = "_analyze_argument_bias"
    /\ \E i \in DOMAIN bias_patterns :
          /\ bias_patterns[i].name \in Range(ret.detected_patterns)
          /\ AccumulatedScores[i] > bias_patterns[i].severity
          /\ ret.added[i].score = bias_patterns[i].severity

\* where agent_name stands in the roster
RosterPosition(agents, agent_name) ==
    CHOOSE k \in DOMAIN agents : agents[k] = agent_name

\* C27: one facilitate_round call raises the round counter by exactly 1 and
\* takes at most one argument from each agent of the roster: every agent is
\* invoked, one whose response is missing or empty appends nothing, the log
\* grows by exactly the number of agents that responded, and the new entries
\* are in roster order and carry the new round counter as round_number
C27_OneArgumentPerAgent ==
    [][op' = "facilitate_round" =>
         LET agents == debate_context.agents
             appended == SubSeq(debate_log', Len(debate_log) + 1, Len(debate_log'))
             responded == Answered(invocations')
         IN  /\ current_round' = current_round + 1
             /\ [k \in DOMAIN invocations' |-> invocations'[k].agent_name] = agents
             /\ SubSeq(debate_log', 1, Len(debate_log)) = debate_log
             /\ Len(debate_log') = Len(debate_log) + Len(responded)
             /\ \A k \in DOMAIN appended :
                   /\ appended[k].agent_name = responded[k].agent_name
                   /\ appended[k].round_number = current_round'
             /\ \A j, k \in DOMAIN appended :
                   j < k => RosterPosition(agents, appended[j].agent_name)
                               < RosterPosition(agents, appended[k].agent_name)
             /\ \A a \in Range(agents) :
                   Cardinality({k \in DOMAIN appended :
                                   appended[k].agent_name = a}) <= 1]_vars

\* C27 witness: a second round over three agents in which the last one's
\* response is empty; the other two arguments are appended to the earlier log
C27_Witness ==
    /\ op = "facilitate_round"
    /\ current_round = 2
    /\ Len(invocations) = 3
    /\ invocations[3].outcome.py = "dict"
    /\ DOMAIN invocations[3].outcome = {"py"}
    /\ round_start_log # <<>>
    /\ Len(debate_log) = Len(round_start_log) + 2
    /\ debate_log[Len(debate_log)].agent_name = "pessimist"
    /\ debate_log[Len(debate_log)].round_number = 2

\* C28: conflict_threshold has no effect on the stopping decision: below the
\* round cap should_continue_debate returns true exactly when
\* consensus_level <= 0.8, whatever the threshold and the conflict intensity
\* are, so moderators that differ only in conflict_threshold answer alike
C28_ThresholdHasNoEffect ==
    (op = "should_continue_debate" /\ current_round < max_rounds) =>
        (ret.value <=> ret.metrics.consensus_level <= 800)

\* C28 witness: below the cap, a moderator with the threshold 2.0 is asked
\* about a conflict intensity that is above 2.0 and not above the default
\* 7.0, at a consensus level above 0.8: the answer is to stop
C28_Witness ==
    /\ op = "should_continue_debate"
    /\ current_round < max_rounds
    /\ conflict_threshold = 2000
    /\ ret.metrics.conflict_intensity > 2000
    /\ ret.metrics.conflict_intensity <= 7000
    /\ ret.metrics.consensus_level > 800
    /\ ret.value = FALSE

====
